---- MODULE Spec2Model ----
(***************************************************************************)
(* Invoice issuance of the POS server (server/src/routes/invoices.js,      *)
(* POST /api/invoices) against the InnoDB tables products, invoices and    *)
(* invoice_items (server/src/config/db-schema.sql).                        *)
(*                                                                         *)
(* One step of the model is one SQL statement executed by the database     *)
(* together with the synchronous JavaScript that runs when its promise     *)
(* resolves, up to the next statement being issued.  Node runs that        *)
(* JavaScript without interleaving; the statements of concurrent requests  *)
(* interleave freely.                                                      *)
(*                                                                         *)
(* Money is counted in cents, so that a DECIMAL(10,2) column stores it     *)
(* exactly.  A value the request may leave out is a sequence: <<>> when    *)
(* absent, <<v>> when present.                                             *)
(***************************************************************************)
EXTENDS Integers, Sequences, FiniteSets, TLC

(* ---- bounds ---- *)
NumRequests == 2
NumConnections == 2
MaxLines == 2
MaxQty == 1
MaxStock == 1
NumInvoiceNumbers == 2
NumAdmins == 1
MaxClientStock == 2
NumSyncCallers == 2
MaxEdits == 2

Requests == 1..NumRequests
Admins == 1..NumAdmins
Connections == 1..NumConnections
NoConnection == 0

(* products "p1" and "p2" have a row; "p3" has none *)
StockedProducts == {"p1", "p2"}
ProductIds == StockedProducts \cup {"p3"}
InvoiceNumber(n) == "INV-" \o ToString(n)
InvoiceNumbers == {InvoiceNumber(n) : n \in 1..NumInvoiceNumbers}
InvoiceIndex(m) == CHOOSE n \in 1..NumInvoiceNumbers : InvoiceNumber(n) = m

Undefined == <<>>

(* the values a cart line carries for a product (snapshotted by the client) *)
LineValues(p) ==
  CASE p = "p1" -> [name |-> "Soap", price |-> 10000,
                    appliedTaxPercent |-> <<18>>, appliedDiscountPercent |-> Undefined,
                    lineTotal |-> 11800]
    [] p = "p2" -> [name |-> "Rice", price |-> 5000,
                    appliedTaxPercent |-> Undefined, appliedDiscountPercent |-> <<10>>,
                    lineTotal |-> 4500]
    [] OTHER    -> [name |-> "Ghost", price |-> 100,
                    appliedTaxPercent |-> <<0>>, appliedDiscountPercent |-> <<0>>,
                    lineTotal |-> 100]

Item(p, q) ==
  [productId |-> p, quantity |-> q, name |-> LineValues(p).name,
   price |-> LineValues(p).price,
   appliedTaxPercent |-> LineValues(p).appliedTaxPercent,
   appliedDiscountPercent |-> LineValues(p).appliedDiscountPercent,
   lineTotal |-> LineValues(p).lineTotal]

\* the lines a request may carry: a positive quantity of a stocked product, a
\* zero or negative quantity, a product that has no row
Items ==
  {Item(p, q) : p \in StockedProducts, q \in 1..MaxQty}
    \cup {Item("p1", 0), Item("p1", 0 - 1), Item("p3", 1)}

ItemLists == UNION {[1..n -> Items] : n \in 0..MaxLines}

\* v || 0 for an optional number: absent and 0 both give 0
OrZero(v) == IF v = Undefined \/ v = <<0>> THEN 0 ELSE v[1]

\* taxOverride || null: the value POST /api/products stores
OrNull(v) == IF v = <<0>> THEN Undefined ELSE v

\* the amounts of a line as the client computes them
ItemBase(item) == item.price * item.quantity
ItemDiscount(item) == (ItemBase(item) * OrZero(item.appliedDiscountPercent)) \div 100
ItemTax(item) ==
  ((ItemBase(item) - ItemDiscount(item)) * OrZero(item.appliedTaxPercent)) \div 100

\* the header totals the client sends with a list of lines
RECURSIVE TotalsOf(_)
TotalsOf(items) ==
  IF items = <<>>
    THEN [subtotal |-> 0, taxTotal |-> 0, discountTotal |-> 0, grandTotal |-> 0]
    ELSE LET rest == TotalsOf(Tail(items))
             item == Head(items) IN
         [subtotal |-> rest.subtotal + ItemBase(item),
          taxTotal |-> rest.taxTotal + ItemTax(item),
          discountTotal |-> rest.discountTotal + ItemDiscount(item),
          grandTotal |-> rest.grandTotal + ItemBase(item) - ItemDiscount(item) + ItemTax(item)]

\* req.body: storeId "" stands for a missing or empty storeId
Body(storeId, itemsPresent, items, subtotal, taxTotal, discountTotal, grandTotal) ==
  [storeId |-> storeId, itemsPresent |-> itemsPresent, items |-> items,
   subtotal |-> subtotal, taxTotal |-> taxTotal, discountTotal |-> discountTotal,
   grandTotal |-> grandTotal]

\* the body the POS client sends for a list of lines
ClientBody(storeId, items) ==
  LET t == TotalsOf(items) IN
  Body(storeId, TRUE, items, <<t.subtotal>>, <<t.taxTotal>>, <<t.discountTotal>>,
       <<t.grandTotal>>)

\* a body of another client: a unit of p1 under header totals that do not add up
OddTotalsBody ==
  Body("s1", TRUE, <<Item("p1", 1)>>, <<10000>>, <<1800>>, <<0>>, <<100>>)

Bodies ==
  {ClientBody("s1", l) : l \in ItemLists}
    \cup {Body("s1", FALSE, <<>>, Undefined, Undefined, Undefined, Undefined),
          ClientBody("", <<Item("p1", 1)>>),
          OddTotalsBody}

NoBody == Body("", FALSE, <<>>, Undefined, Undefined, Undefined, Undefined)

VARIABLES
  products,       \* committed products.stock_qty, by product id
  invoices,       \* committed rows of invoices
  invoice_items,  \* committed rows of invoice_items
  tx,             \* per connection: the open transaction's uncommitted work
  lockOwner,      \* per product row: the connection holding its exclusive lock
  pool,           \* the connections free in the pool
  req,            \* per request: the handler's position and locals, and how many
                  \* transactions it has begun and ended and how many invoice
                  \* numbers it has generated
  initialStock,   \* products.stock_qty before the first request (never changes)
  admin,          \* per request to /api/products: the handler's position and locals
  cart,           \* POS: the cart, a sequence of lines (CartItem)
  props,          \* POS: the store, the categories and the products it is rendered with
  pos,            \* POS: isSubmitting, the isSubmitting of the last render, the
                  \* payload of the checkout in flight, how many fetches are in
                  \* flight, and whether the last click on Complete Payment was ignored
  catalog,        \* per product: the tax override the store admin saved and the
                  \* tax_override column of its row
  offline         \* the offline manager: the pending and failed queues of
                  \* localStorage, the sync lock, the calls of syncPendingInvoices,
                  \* and what submitFn was called with and has accepted

\* the state of the browser
client == <<cart, props, pos, catalog, offline>>

\* the state of the server
server ==
  <<products, invoices, invoice_items, tx, lockOwner, pool, req, initialStock, admin>>

\* what POST /api/invoices leaves alone
others == <<admin, client>>

vars ==
  <<products, invoices, invoice_items, tx, lockOwner, pool, req, initialStock, admin,
    cart, props, pos, catalog, offline>>

(* ---- the handler's pure pieces ---- *)

\* !storeId || !items || items.length === 0
MissingRequiredFields(body) ==
  body.storeId = "" \/ ~body.itemsPresent \/ Len(body.items) = 0

\* randomUUID(): one fresh identifier per request
InvoiceId(r) == "uuid-" \o ToString(r)

\* (a mutant: the comparison is off by one)
StockBelowByTwo(currentStock, quantity) == currentStock + 1 < quantity

\* currentStock < item.quantity
StockBelow(currentStock, quantity) == currentStock < quantity

\* stock_qty - ?
Deducted(stock, quantity) == stock - quantity

\* (a mutant: the message names the line's name, not its productId)
ProductNotFoundByName(item) == <<"Product not found: ", item.name>>

\* error.message as the sequence of its parts
ProductNotFoundMessage(item) == <<"Product not found: ", item.productId>>
InsufficientStockMessage(item, currentStock) == <<"Insufficient stock for ", item.name>>
DuplicateEntryMessage(n) == <<"Duplicate entry '", n, "' for key 'invoices.invoice_number'">>
LockWaitMessage == <<"Lock wait timeout exceeded; try restarting transaction">>
StorageMessage == <<"Connection lost: The server closed the connection.">>
NoError == <<>>

\* message.includes(text): text is one of the literal parts
Includes(message, text) == \E k \in 1..Len(message) : message[k] = text

\* a message as one string
RECURSIVE Joined(_)
Joined(message) ==
  IF message = <<>> THEN "" ELSE Head(message) \o Joined(Tail(message))

\* (a mutant: the catch block takes every error for a validation error)
IsAnyError(message) == TRUE

\* the test of the catch block that answers 400
IsBusinessError(message) ==
  Includes(message, "Insufficient stock for ") \/ Includes(message, "Product not found: ")

NoResponse == [status |-> 0]
Created(id, n) ==
  [status |-> 201, message |-> "Invoice created successfully",
   invoiceId |-> id, invoiceNumber |-> n]
MissingFields == [status |-> 400, error |-> "Missing required fields"]
BusinessFailure(message) == [status |-> 400, error |-> Joined(message)]
ServerFailure(message) ==
  [status |-> 500, error |-> "Failed to create invoice", details |-> Joined(message)]

ErrorResponse(message) ==
  IF IsBusinessError(message) THEN BusinessFailure(message) ELSE ServerFailure(message)

\* the row of invoices written for a request
InvoiceRow(id, n, body) ==
  [id |-> id, invoice_number |-> n, store_id |-> body.storeId,
   subtotal |-> OrZero(body.subtotal), tax_total |-> OrZero(body.taxTotal),
   discount_total |-> OrZero(body.discountTotal), grand_total |-> OrZero(body.grandTotal)]

\* (a mutant: the row takes the line total for the unit price)
ItemRowWrongPrice(id, k, item) ==
  [invoice_id |-> id, line |-> k, product_id |-> item.productId,
   product_name |-> item.name, quantity |-> item.quantity,
   unit_price |-> item.lineTotal,
   applied_tax_percent |-> OrZero(item.appliedTaxPercent),
   applied_discount_percent |-> OrZero(item.appliedDiscountPercent),
   line_total |-> item.lineTotal]

\* the k-th row of invoice_items written for a request
ItemRow(id, k, item) ==
  [invoice_id |-> id, line |-> k, product_id |-> item.productId,
   product_name |-> item.name, quantity |-> item.quantity,
   unit_price |-> item.price,
   applied_tax_percent |-> OrZero(item.appliedTaxPercent),
   applied_discount_percent |-> OrZero(item.appliedDiscountPercent),
   line_total |-> item.lineTotal]

(* ---- the database ---- *)

NoTx == [active |-> FALSE, invoices |-> {}, items |-> {}, stock |-> <<>>]

\* (a mutant: the read does not see the transaction's own earlier UPDATE)
CommittedStock(c, p) == products[p]

\* stock_qty of row p as connection c reads it: its own write, else the committed value
StockSeenBy(c, p) ==
  IF p \in DOMAIN tx[c].stock THEN tx[c].stock[p] ELSE products[p]

\* the committed tables once connection c's work is committed
ProductsAfterCommit(c) ==
  [p \in DOMAIN products \cup DOMAIN tx[c].stock |->
     IF p \in DOMAIN tx[c].stock THEN tx[c].stock[p] ELSE products[p]]

LocksReleased(c) ==
  [p \in DOMAIN lockOwner |-> IF lockOwner[p] = c THEN NoConnection ELSE lockOwner[p]]

\* (a mutant: the rows are read and written without waiting for their lock)
NeverWaits(c, p) == TRUE

\* row p can be locked by c: nobody else holds it
Lockable(c, p) == lockOwner[p] \in {NoConnection, c}

\* the unique key on invoice_number: a committed row has n
NumberTaken(n) == \E row \in invoices : row.invoice_number = n

\* another open transaction has inserted n and not yet ended: the insert waits
NumberPending(c, n) ==
  \E d \in Connections \ {c} : \E row \in tx[d].invoices : row.invoice_number = n

(* ---- state ---- *)

\* a request to /api/products: POST / , PUT /:id, PATCH /:id/stock or DELETE /:id
NewAdmin ==
  [pc |-> "idle", kind |-> "", id |-> "", delta |-> Undefined, stockQty |-> Undefined,
   name |-> Undefined, price |-> Undefined, taxOverride |-> Undefined,
   currentStock |-> 0, status |-> 0]

NewRequest ==
  [pc |-> "idle", body |-> NoBody, conn |-> NoConnection, i |-> 0,
   invoiceNumber |-> "", currentStock |-> 0, error |-> NoError,
   response |-> NoResponse, begun |-> 0, ended |-> 0, generated |-> 0]

(* ---- the POS page ---- *)

\* amounts are counted in 1/Micro of a cent, so that a percentage of a percentage
\* of a price in cents is a whole number
Micro == 10000

\* a product as the client holds it (price in cents; no taxOverride is null)
ClientProduct(id, name, price, stockQty, taxOverride, categoryId) ==
  [id |-> id, name |-> name, price |-> price, stockQty |-> stockQty,
   taxOverride |-> taxOverride, categoryId |-> categoryId]

\* the catalog the page starts with: two products of category c1
InitialProps ==
  [store |-> [id |-> "s1", globalDiscount |-> Undefined],
   categories |-> ("c1" :> [defaultGST |-> 5, defaultDiscount |-> Undefined]),
   products |-> ("p1" :> ClientProduct("p1", "Soap", 1008, MaxClientStock, Undefined, "c1"))
                  @@ ("p2" :> ClientProduct("p2", "Rice", 2008, 1, <<5>>, "c1")),
   invoices |-> <<>>]

NoPayload == <<>>

\* a percentage as a DECIMAL(5,2) column holds it (in hundredths), NULL kept
Decimal52(v) == IF v = Undefined THEN Undefined ELSE <<v[1] * 100>>

\* the row of products without its stock_qty: name, price and tax_override as
\* stored, and the tax override that was sent to be stored (saved)
ProductRow(name, price, saved, stored) ==
  [name |-> name, price |-> price, saved |-> saved, tax_override |-> Decimal52(stored)]

\* the invoices that are queued while offline (their tempId) and the callers
\* of syncPendingInvoices
TempIds == {"t1", "t2"}
SyncCallers == 1..NumSyncCallers

NoResult == <<>>

\* a caller that is not inside syncPendingInvoices: pc tells how its last call
\* ended ("idle" before the first), result what it returned
IdleRun == [pc |-> "idle", pending |-> <<>>, i |-> 0, synced |-> 0, failed |-> 0,
            result |-> NoResult]

\* both queues empty (no key in localStorage), isSyncing = false
OfflineInit ==
  [pending |-> <<>>, failed |-> <<>>, isSyncing |-> FALSE,
   run |-> [r \in SyncCallers |-> IdleRun],
   submitted |-> [t \in TempIds |-> 0], accepted |-> {}, removed |-> {}]

ClientInit ==
  /\ offline = OfflineInit
  /\ cart = <<>>
  /\ props = InitialProps
  /\ pos = [isSubmitting |-> FALSE, payload |-> NoPayload, rendered |-> FALSE,
            inFlight |-> 0, ignored |-> FALSE]
  /\ catalog = [edits |-> 0,
                rows |-> [p \in DOMAIN InitialProps.products |->
                           ProductRow(InitialProps.products[p].name,
                                      InitialProps.products[p].price,
                                      InitialProps.products[p].taxOverride,
                                      InitialProps.products[p].taxOverride)]]

Init ==
  /\ products \in [StockedProducts -> 0..MaxStock]
  /\ initialStock = products
  /\ invoices = {}
  /\ invoice_items = {}
  /\ tx = [c \in Connections |-> NoTx]
  /\ lockOwner = [p \in ProductIds |-> NoConnection]
  /\ pool = Connections
  /\ req = [r \in Requests |-> NewRequest]
  /\ admin = [a \in Admins |-> NewAdmin]
  /\ ClientInit

(* ---- POST /api/invoices, one action per awaited statement ---- *)

\* the invoice numbers that exist: committed, inserted, or generated by a running request
NumbersInUse ==
  {row.invoice_number : row \in invoices}
    \cup UNION {{row.invoice_number : row \in tx[c].invoices} : c \in Connections}
    \cup {req[r].invoiceNumber : r \in {q \in Requests : req[q].invoiceNumber # ""}}

\* `INV-${Date.now()}-${Math.random()...}`: a number that collides with one in use,
\* or a new one (the first unused number stands for every new one)
Generated ==
  NumbersInUse \cup
    {n \in InvoiceNumbers \ NumbersInUse :
       \A m \in InvoiceNumbers \ NumbersInUse : InvoiceIndex(m) >= InvoiceIndex(n)}

\* finally: connection.release()
Released(c) == pool \cup {c}

\* the handler has answered and returned: its locals are gone, the request
\* (its body, what was answered, the transactions it began and ended, the
\* numbers it generated) remains
Returned(q, response) ==
  [NewRequest EXCEPT !.pc = "done", !.body = q.body, !.response = response,
                     !.begun = q.begun, !.ended = q.ended,
                     !.generated = q.generated]

\* the request arrives with its body; the handler asks the pool for a connection
\* (requests are numbered in their order of arrival)
ReceiveFrom(r, bodies) ==
  /\ req[r].pc = "idle"
  /\ \A q \in Requests : q < r => req[q].pc # "idle"
  /\ \E b \in bodies :
       req' = [req EXCEPT ![r].pc = "getConnection", ![r].body = b]
  /\ UNCHANGED <<products, invoices, invoice_items, tx, lockOwner, pool, initialStock, others>>

Receive(r) == ReceiveFrom(r, Bodies)

\* db.getConnection() resolves with a free connection; beginTransaction is issued
\* (of free connections in the same state, the lowest-numbered stands for all)
GetConnection(r) ==
  /\ req[r].pc = "getConnection"
  /\ \E c \in pool :
       /\ \A d \in pool : d < c => tx[d] # tx[c]
       /\ pool' = pool \ {c}
       /\ req' = [req EXCEPT ![r].pc = "beginTransaction", ![r].conn = c]
  /\ UNCHANGED <<products, invoices, invoice_items, tx, lockOwner, initialStock, others>>

\* START TRANSACTION (it first commits a transaction the connection still has
\* open), then the validation of the body: 400 and release, or the invoice
\* number is generated and the INSERT INTO invoices is issued
BeginTransaction(r) ==
  LET c == req[r].conn IN
  /\ req[r].pc = "beginTransaction"
  /\ products' = ProductsAfterCommit(c)
  /\ invoices' = invoices \cup tx[c].invoices
  /\ invoice_items' = invoice_items \cup tx[c].items
  /\ lockOwner' = LocksReleased(c)
  /\ tx' = [tx EXCEPT ![c] = [NoTx EXCEPT !.active = TRUE]]
  /\ UNCHANGED <<initialStock, others>>
  /\ IF MissingRequiredFields(req[r].body)
       THEN /\ req' = [req EXCEPT ![r] = Returned([@ EXCEPT !.begun = @ + 1], MissingFields)]
            /\ pool' = Released(c)
       ELSE /\ \E n \in Generated :
                 req' = [req EXCEPT ![r].pc = "insertInvoice", ![r].begun = @ + 1,
                                    ![r].invoiceNumber = n,
                                    ![r].generated = @ + 1]
            /\ UNCHANGED pool

\* INSERT INTO invoices; then the loop issues its first SELECT ... FOR UPDATE
InsertInvoice(r) ==
  LET c == req[r].conn
      n == req[r].invoiceNumber IN
  /\ req[r].pc = "insertInvoice"
  /\ ~NumberPending(c, n)
  /\ IF NumberTaken(n)
       THEN /\ req' = [req EXCEPT ![r].pc = "rollback",
                                  ![r].error = DuplicateEntryMessage(n)]
            /\ UNCHANGED tx
       ELSE /\ tx' = [tx EXCEPT ![c].invoices =
                        @ \cup {InvoiceRow(InvoiceId(r), n, req[r].body)}]
            /\ req' = [req EXCEPT ![r].pc = "selectForUpdate", ![r].i = 1]
  /\ UNCHANGED <<products, invoices, invoice_items, lockOwner, pool, initialStock, others>>

\* SELECT stock_qty FROM products WHERE id = ? FOR UPDATE (it waits for a row
\* another connection has written and not committed), then the two checks:
\* throw, or issue the INSERT INTO invoice_items
SelectForUpdate(r) ==
  LET c == req[r].conn
      item == req[r].body.items[req[r].i] IN
  /\ req[r].pc = "selectForUpdate"
  /\ IF item.productId \notin DOMAIN products /\ lockOwner[item.productId] = NoConnection
       THEN /\ req' = [req EXCEPT ![r].pc = "rollback",
                                  ![r].error = ProductNotFoundMessage(item)]
            /\ UNCHANGED lockOwner
       ELSE /\ Lockable(c, item.productId)
            /\ lockOwner' = [lockOwner EXCEPT ![item.productId] = c]
            /\ LET currentStock == StockSeenBy(c, item.productId) IN
                 IF StockBelow(currentStock, item.quantity)
                   THEN req' = [req EXCEPT ![r].pc = "rollback",
                                  ![r].currentStock = currentStock,
                                  ![r].error = InsufficientStockMessage(item, currentStock)]
                   ELSE req' = [req EXCEPT ![r].pc = "insertItem",
                                  ![r].currentStock = currentStock]
  /\ UNCHANGED <<products, invoices, invoice_items, tx, pool, initialStock, others>>

\* INSERT INTO invoice_items; then the UPDATE is issued
InsertItem(r) ==
  LET c == req[r].conn
      item == req[r].body.items[req[r].i] IN
  /\ req[r].pc = "insertItem"
  /\ tx' = [tx EXCEPT ![c].items = @ \cup {ItemRow(InvoiceId(r), req[r].i, item)}]
  /\ req' = [req EXCEPT ![r].pc = "updateStock"]
  /\ UNCHANGED <<products, invoices, invoice_items, lockOwner, pool, initialStock, others>>

\* (a mutant: the UPDATE runs on the pool, outside the transaction, and is
\* committed at once)
UpdateStockOutsideTransaction(r) ==
  LET c == req[r].conn
      item == req[r].body.items[req[r].i] IN
  /\ req[r].pc = "updateStock"
  /\ Lockable(c, item.productId)
  /\ products' = [products EXCEPT ![item.productId] = Deducted(@, item.quantity)]
  /\ IF req[r].i < Len(req[r].body.items)
       THEN req' = [req EXCEPT ![r].pc = "selectForUpdate", ![r].i = @ + 1]
       ELSE req' = [req EXCEPT ![r].pc = "commit"]
  /\ UNCHANGED <<invoices, invoice_items, tx, lockOwner, pool, initialStock, others>>

\* UPDATE products SET stock_qty = stock_qty - ?; then the next line, or commit
UpdateStock(r) ==
  LET c == req[r].conn
      item == req[r].body.items[req[r].i] IN
  /\ req[r].pc = "updateStock"
  /\ Lockable(c, item.productId)
  /\ lockOwner' = [lockOwner EXCEPT ![item.productId] = c]
  /\ tx' = [tx EXCEPT ![c].stock =
              (item.productId :> Deducted(StockSeenBy(c, item.productId), item.quantity)) @@ @]
  /\ IF req[r].i < Len(req[r].body.items)
       THEN req' = [req EXCEPT ![r].pc = "selectForUpdate", ![r].i = @ + 1]
       ELSE req' = [req EXCEPT ![r].pc = "commit"]
  /\ UNCHANGED <<products, invoices, invoice_items, pool, initialStock, others>>

\* COMMIT; then 201 and, in finally, the release
Commit(r) ==
  LET c == req[r].conn IN
  /\ req[r].pc = "commit"
  /\ products' = ProductsAfterCommit(c)
  /\ invoices' = invoices \cup tx[c].invoices
  /\ invoice_items' = invoice_items \cup tx[c].items
  /\ lockOwner' = LocksReleased(c)
  /\ tx' = [tx EXCEPT ![c] = NoTx]
  /\ pool' = Released(c)
  /\ UNCHANGED <<initialStock, others>>
  /\ req' = [req EXCEPT ![r] = Returned([@ EXCEPT !.ended = @ + 1],
                                        Created(InvoiceId(r), req[r].invoiceNumber))]

\* catch (error): ROLLBACK; then 400 or 500 and, in finally, the release
Caught(r, message) ==
  LET c == req[r].conn IN
  /\ lockOwner' = LocksReleased(c)
  /\ tx' = [tx EXCEPT ![c] = NoTx]
  /\ pool' = Released(c)
  /\ req' = [req EXCEPT ![r] = Returned([@ EXCEPT !.ended = @ + 1],
                                        ErrorResponse(message))]
  /\ UNCHANGED <<products, invoices, invoice_items, initialStock, others>>

\* the ROLLBACK after one of the two errors the loop throws, or after a duplicate
\* invoice number
Rollback(r) ==
  /\ req[r].pc = "rollback"
  /\ Caught(r, req[r].error)

\* a statement of the try block fails in the database (connection lost, server
\* error): it has no effect, its promise rejects and the catch block runs.
\* Until the ROLLBACK the transaction is to the others as it was while the
\* statement was awaited, so the failure and the ROLLBACK are one step.
StatementFails(r) ==
  /\ req[r].pc \in {"beginTransaction", "insertInvoice", "selectForUpdate",
                    "insertItem", "updateStock", "commit"}
  /\ Caught(r, StorageMessage)

\* the statement of r waits for a lock another transaction holds
WaitsForLock(r) ==
  LET c == req[r].conn IN
  \/ /\ req[r].pc = "insertInvoice"
     /\ NumberPending(c, req[r].invoiceNumber)
  \/ /\ req[r].pc = "selectForUpdate"
     /\ ~Lockable(c, req[r].body.items[req[r].i].productId)

\* (a mutant: a statement that waits for a lock waits without limit, as when
\* the lock wait timeout and the deadlock detection are off)
WaitsWithoutLimit(r) ==
  /\ WaitsForLock(r)
  /\ FALSE
  /\ UNCHANGED vars

\* InnoDB gives up a waiting statement (lock wait timeout, or victim of a
\* deadlock); the catch block runs as after any failed statement
LockWaitTimeout(r) ==
  /\ WaitsForLock(r)
  /\ Caught(r, LockWaitMessage)

Next ==
  \E r \in Requests :
    \/ Receive(r)
    \/ GetConnection(r)
    \/ BeginTransaction(r)
    \/ InsertInvoice(r)
    \/ SelectForUpdate(r)
    \/ InsertItem(r)
    \/ UpdateStock(r)
    \/ Commit(r)
    \/ Rollback(r)
    \/ StatementFails(r)
    \/ LockWaitTimeout(r)

Spec == Init /\ [][Next]_vars

(* ---- what the claims speak of ---- *)

Answered(r, status) == req[r].pc = "done" /\ req[r].response.status = status

\* the texts of the two validation errors, as the caller reads them
NotFoundText(p) == "Product not found: " \o p
InsufficientText(name) == "Insufficient stock for " \o name
NotFoundTexts == {NotFoundText(p) : p \in ProductIds}
InsufficientTexts == {InsufficientText(i.name) : i \in Items}

\* the request was refused because a line failed validation
ValidationFailed(r) ==
  /\ Answered(r, 400)
  /\ req[r].response.error \in NotFoundTexts \cup InsufficientTexts

InvoiceRowsOf(r) == {row \in invoices : row.id = InvoiceId(r)}
ItemRowsOf(r) == {row \in invoice_items : row.invoice_id = InvoiceId(r)}
NothingPersisted(r) == InvoiceRowsOf(r) = {} /\ ItemRowsOf(r) = {}

\* the quantity of product p a list of lines asks for
RECURSIVE LineQty(_, _)
LineQty(items, p) ==
  IF items = <<>> THEN 0
  ELSE (IF Head(items).productId = p THEN Head(items).quantity ELSE 0)
         + LineQty(Tail(items), p)

LinesOf(items, p) == {k \in 1..Len(items) : items[k].productId = p}

\* the quantity of product p on the requests of rs that were answered 201
RECURSIVE SoldBy(_, _)
SoldBy(rs, p) ==
  IF rs = {} THEN 0
  ELSE LET r == CHOOSE q \in rs : TRUE IN
         (IF Answered(r, 201) THEN LineQty(req[r].body.items, p) ELSE 0)
           + SoldBy(rs \ {r}, p)

\* the quantity of product p on a set of invoice_items rows
RECURSIVE RowQty(_, _)
RowQty(rows, p) ==
  IF rows = {} THEN 0
  ELSE LET row == CHOOSE x \in rows : TRUE IN
         (IF row.product_id = p THEN row.quantity ELSE 0) + RowQty(rows \ {row}, p)

\* no request but those of rs has anything to do with product p
OnlyTouchedBy(rs, p) ==
  \A q \in Requests \ rs : req[q].pc = "idle" \/ LinesOf(req[q].body.items, p) = {}

(* ---- C1 ---- *)

\* C1: when a request is refused because one of its lines failed validation
\* (product missing, or stock below the quantity), no invoices row and no
\* invoice_items row of it exists, and every product's stock_qty is what the
\* other requests' committed invoices leave of the initial stock: the lines
\* of the refused request that were already processed have left no trace.
C1_RefusedRequestLeavesNothing ==
  \A r \in Requests :
    ValidationFailed(r) =>
      /\ NothingPersisted(r)
      /\ \A p \in DOMAIN products :
           products[p] = initialStock[p] - SoldBy(Requests \ {r}, p)

\* a two-line request whose first line was processed (p1 had the stock) and
\* whose second line found p2 out of stock, before any other request came
C1_Witness ==
  /\ ValidationFailed(1)
  /\ req[1].body.items = <<Item("p1", 1), Item("p2", 1)>>
  /\ initialStock = [p \in StockedProducts |-> IF p = "p1" THEN 1 ELSE 0]
  /\ req[1].response.error = InsufficientText("Rice")
  /\ req[2].pc = "idle"

(* ---- C2 ---- *)

\* the request r asks for one unit of product p and nothing else
AsksLastUnit(r, p) ==
  /\ req[r].pc # "idle"
  /\ req[r].body.storeId # ""
  /\ req[r].body.itemsPresent
  /\ Len(req[r].body.items) = 1
  /\ req[r].body.items[1].productId = p
  /\ req[r].body.items[1].quantity = 1

RefusedForStock(r) ==
  Answered(r, 400) /\ req[r].response.error \in InsufficientTexts

\* r has read the stock of its line, found it sufficient, and not yet ended
PastStockCheck(r) == req[r].pc \in {"insertItem", "updateStock", "commit"}

\* C2: two requests each ask for one unit of a product whose stock_qty is 1,
\* and no other request touches the product.  In whatever way their
\* statements interleave, they are never both past the stock check and never
\* both answered 201; and once both are answered, unless the database failed
\* one of them (a 500), exactly one was answered 201 and the other was
\* refused with "Insufficient stock".
C2_LastUnitRace ==
  \A p \in DOMAIN products : \A a, b \in Requests :
    (a # b /\ initialStock[p] = 1 /\ AsksLastUnit(a, p) /\ AsksLastUnit(b, p)
       /\ OnlyTouchedBy({a, b}, p)) =>
      /\ ~(PastStockCheck(a) /\ PastStockCheck(b))
      /\ ~(Answered(a, 201) /\ (PastStockCheck(b) \/ Answered(b, 201)))
      /\ (req[a].pc = "done" /\ req[b].pc = "done"
            /\ ~Answered(a, 500) /\ ~Answered(b, 500)) =>
           \/ Answered(a, 201) /\ RefusedForStock(b)
           \/ Answered(b, 201) /\ RefusedForStock(a)

\* the race has been run: the request that came second won, the first lost
C2_Witness ==
  /\ initialStock["p1"] = 1
  /\ AsksLastUnit(1, "p1") /\ AsksLastUnit(2, "p1")
  /\ Answered(2, 201) /\ RefusedForStock(1)
  /\ products["p1"] = 0

(* ---- C3 ---- *)

\* C3: stock_qty is never negative, neither as committed nor as written by an
\* open transaction; the quantities of a product on the committed
\* invoice_items rows never add up to more than its initial stock N; and the
\* committed stock is N minus that sum.
C3_StockNeverNegative ==
  \A p \in DOMAIN products :
    /\ products[p] >= 0
    /\ \A c \in Connections : p \in DOMAIN tx[c].stock => tx[c].stock[p] >= 0
    /\ RowQty(invoice_items, p) <= initialStock[p]
    /\ products[p] = initialStock[p] - RowQty(invoice_items, p)

\* both requests are answered, the whole stock of p1 is sold and one request
\* was refused for it
C3_Witness ==
  /\ initialStock["p1"] = 1
  /\ RowQty(invoice_items, "p1") = 1
  /\ products["p1"] = 0
  /\ \E r \in Requests : RefusedForStock(r)
  /\ \A r \in Requests : req[r].pc = "done"

(* ---- C4 ---- *)

\* a percent the line may leave out, as the row holds it
PercentOf(v) == IF v = <<>> THEN 0 ELSE v[1]

\* row is the invoice_items row of line k of request r
CarriesLine(row, r, k) ==
  LET item == req[r].body.items[k] IN
  /\ row.invoice_id = InvoiceId(r)
  /\ row.line = k
  /\ row.product_id = item.productId
  /\ row.product_name = item.name
  /\ row.quantity = item.quantity
  /\ row.unit_price = item.price
  /\ row.applied_tax_percent = PercentOf(item.appliedTaxPercent)
  /\ row.applied_discount_percent = PercentOf(item.appliedDiscountPercent)
  /\ row.line_total = item.lineTotal

\* the step in which request r is answered 201
AnswersCreated(r) ==
  req[r].pc # "done" /\ req'[r].pc = "done" /\ req'[r].response.status = 201

\* C4: the step that answers a request 201 adds to the committed tables exactly
\* one invoices row (the request's id, number and store) and exactly one
\* invoice_items row per line of the request, carrying the line's product,
\* name, quantity, price, tax percent, discount percent and lineTotal; every
\* product of the request exists and its stock_qty goes down by exactly the
\* quantity the request asked of it, and no other product's stock_qty changes.
C4_SuccessfulIssuance ==
  [][\A r \in Requests :
       AnswersCreated(r) =>
         LET items == req[r].body.items
             newRows == invoice_items' \ invoice_items IN
         /\ \A k \in 1..Len(items) : items[k].productId \in DOMAIN products
         /\ \E row \in invoices' \ invoices :
              /\ invoices' = invoices \cup {row}
              /\ row.id = req'[r].response.invoiceId
              /\ row.invoice_number = req'[r].response.invoiceNumber
              /\ row.store_id = req[r].body.storeId
         /\ invoice_items \subseteq invoice_items'
         /\ Cardinality(newRows) = Len(items)
         /\ \A k \in 1..Len(items) : \E row \in newRows : CarriesLine(row, r, k)
         /\ \A p \in DOMAIN products :
              products'[p] = products[p] - LineQty(items, p)]_vars

\* a two-line request has been answered 201 while the other request was still
\* running; its two rows are committed and p1 and p2 are each one less
C4_Witness ==
  /\ Answered(1, 201)
  /\ req[1].body.items = <<Item("p1", 1), Item("p2", 1)>>
  /\ Cardinality(ItemRowsOf(1)) = 2
  /\ initialStock = [p \in StockedProducts |-> 1]
  /\ products = [p \in StockedProducts |-> 0]
  /\ req[2].pc \notin {"idle", "done"}

(* ---- C5 ---- *)

\* r has two or more lines of product p
HasDuplicateLines(r, p) == Cardinality(LinesOf(req[r].body.items, p)) >= 2

\* no request but r has a line of p with a quantity below 1 (that could add stock)
NoOtherAddsStock(r, p) ==
  \A q \in Requests \ {r} : \A k \in LinesOf(req[q].body.items, p) :
    req[q].body.items[k].quantity >= 1

UnknownProductIn(r) ==
  \E k \in 1..Len(req[r].body.items) :
    req[r].body.items[k].productId \notin DOMAIN products

\* C5: a request with several lines of one product is answered 201 only when
\* the product's stock_qty at that time covers the sum of those lines; and when
\* each of the lines fits the initial stock but their sum does not (nobody else
\* adding stock), the request is not answered 201, nothing of it is persisted,
\* and a 400 it gets is the one for insufficient stock (unless another of its
\* lines names a product that has no row).
C5_DuplicateLinesCumulative ==
  /\ [][\A r \in Requests : \A p \in DOMAIN products :
          (AnswersCreated(r) /\ HasDuplicateLines(r, p)) =>
             products[p] >= LineQty(req[r].body.items, p)]_vars
  /\ [](\A r \in Requests : \A p \in DOMAIN products :
          (/\ req[r].pc = "done"
           /\ HasDuplicateLines(r, p)
           /\ \A k \in LinesOf(req[r].body.items, p) :
                /\ req[r].body.items[k].quantity >= 1
                /\ req[r].body.items[k].quantity <= initialStock[p]
           /\ LineQty(req[r].body.items, p) > initialStock[p]
           /\ NoOtherAddsStock(r, p)) =>
             /\ ~Answered(r, 201)
             /\ NothingPersisted(r)
             /\ (Answered(r, 400) /\ ~UnknownProductIn(r)) => RefusedForStock(r))

\* two lines of one unit of p1, of which there is one: refused for stock
C5_Witness ==
  /\ req[1].body.items = <<Item("p1", 1), Item("p1", 1)>>
  /\ initialStock["p1"] = 1
  /\ RefusedForStock(1)
  /\ products["p1"] = 1
  /\ req[2].pc = "idle"

(* ---- C6 ---- *)

HasNonPositiveQuantity(r) ==
  \E k \in 1..Len(req[r].body.items) : req[r].body.items[k].quantity <= 0

\* C6: a request with a line whose quantity is zero or negative is rejected
\* with an error and persists nothing, and issuance never raises a product's
\* stock_qty above its initial value.
C6_NonPositiveQuantityRejected ==
  /\ \A r \in Requests :
       (req[r].pc = "done" /\ HasNonPositiveQuantity(r)) =>
         /\ req[r].response.status \in {400, 500}
         /\ NothingPersisted(r)
  /\ \A p \in DOMAIN products : products[p] <= initialStock[p]

(* ---- C7 ---- *)

\* C7: a request with a line whose productId has no row is never answered 201
\* and persists nothing.  When the lookup of a line finds no row the answer is
\* 400 with the error "Product not found: <that productId>": such an answer
\* names a productId of the request that has no row, and a request whose first
\* line is such a product gets that answer unless the database failed it (500).
\* Having been refused so, the request has begun one transaction and ended it
\* once (it is not run again), and the stock is as the committed invoices of
\* the other requests leave it.
C7_ProductNotFound ==
  \A r \in Requests :
    req[r].pc = "done" =>
      /\ UnknownProductIn(r) => ~Answered(r, 201) /\ NothingPersisted(r)
      /\ (Answered(r, 400) /\ req[r].response.error \in NotFoundTexts) =>
           /\ \E k \in 1..Len(req[r].body.items) :
                /\ req[r].body.items[k].productId \notin DOMAIN products
                /\ req[r].response.error = NotFoundText(req[r].body.items[k].productId)
           /\ NothingPersisted(r)
           /\ req[r].begun = 1 /\ req[r].ended = 1
           /\ \A p \in DOMAIN products :
                products[p] = initialStock[p] - SoldBy(Requests \ {r}, p)
      /\ (/\ ~MissingRequiredFields(req[r].body)
          /\ req[r].body.items[1].productId \notin DOMAIN products
          /\ ~Answered(r, 500)) =>
           /\ Answered(r, 400)
           /\ req[r].response.error = NotFoundText(req[r].body.items[1].productId)

\* the first line took the last unit of p1, the second names p3, which has no
\* row: refused, and p1 has its unit back
C7_Witness ==
  /\ req[1].body.items = <<Item("p1", 1), Item("p3", 1)>>
  /\ initialStock["p1"] = 1
  /\ Answered(1, 400)
  /\ req[1].response.error = "Product not found: p3"
  /\ products["p1"] = 1
  /\ req[2].pc = "idle"

(* ---- C8 ---- *)

\* the catch block is about to answer for an insufficient stock
ThrownForStock(r) ==
  req[r].pc = "rollback" /\ Includes(req[r].error, "Insufficient stock for ")

\* C8: the error of an issuance refused for insufficient stock names the
\* product, the quantity available and the quantity requested.
C8_InsufficientStockNamesQuantities ==
  \A r \in Requests :
    ThrownForStock(r) =>
      LET item == req[r].body.items[req[r].i] IN
      /\ Includes(req[r].error, item.name) \/ Includes(req[r].error, item.productId)
      /\ Includes(req[r].error, ToString(req[r].currentStock))
      /\ Includes(req[r].error, ToString(item.quantity))

(* ---- C9 ---- *)

ServerFailureTexts ==
  {Joined(DuplicateEntryMessage(n)) : n \in InvoiceNumbers}
    \cup {Joined(LockWaitMessage), Joined(StorageMessage)}

C10_TransactionEndedBeforeRelease ==
  /\ \A c \in pool : ~tx[c].active
  /\ \A r \in Requests :
       (req[r].pc = "done" /\ req[r].begun >= 1) => req[r].ended = 1

(* ---- C11 ---- *)

\* the steps of request r that are bound to come: the pool hands out a free
\* connection, the database answers a statement with its result, or gives up a
\* statement that waits for a lock (a failing statement is not bound to come)
Proceeds(r) ==
  \/ GetConnection(r)
  \/ BeginTransaction(r)
  \/ InsertInvoice(r)
  \/ SelectForUpdate(r)
  \/ InsertItem(r)
  \/ UpdateStock(r)
  \/ Commit(r)
  \/ Rollback(r)
  \/ LockWaitTimeout(r)

\* every step the handler of request r can take once the request has arrived
Handler(r) == Proceeds(r) \/ StatementFails(r)

\* the bodies of the requests that contend for rows: one unit of a stocked
\* product on every line, in any order, or nothing at all
ContendingBodies ==
  {b \in Bodies :
     \A k \in 1..Len(b.items) :
       b.items[k].productId \in StockedProducts /\ b.items[k].quantity = 1}

FairNext == \E r \in Requests : ReceiveFrom(r, ContendingBodies) \/ Handler(r)

\* the event loop runs every continuation that is ready and the database
\* answers every statement
FairSpec ==
  Init /\ [][FairNext]_vars /\ \A r \in Requests : WF_vars(Proceeds(r))

\* the two requests lock p1 and p2 in opposite line order
OpposedLines(a, b) ==
  /\ req[a].body.items = <<Item("p1", 1), Item("p2", 1)>>
  /\ req[b].body.items = <<Item("p2", 1), Item("p1", 1)>>

\* r was given up by the database while it waited for a lock
FailedOnLock(r) ==
  Answered(r, 500) /\ req[r].response.details = Joined(LockWaitMessage)

FailedOnDuplicate(r) ==
  /\ Answered(r, 500)
  /\ req[r].response.details \in {Joined(DuplicateEntryMessage(n)) : n \in InvoiceNumbers}

\* C12: the committed invoices have pairwise distinct invoice numbers, and a
\* request whose generated number collided with a committed invoice's number
\* is answered with a failure only after it has generated another number and
\* tried again at least once.
C12_DuplicateNumberRegenerated ==
  /\ \A a, b \in invoices : a.invoice_number = b.invoice_number => a = b
  /\ \A r \in Requests :
       FailedOnDuplicate(r) => req[r].generated >= 2

(* ---- /api/products: create, update, stock adjustment ---- *)

\* a request to /api/products with what its body carries of the product
ProductCall(kind, id, delta, stockQty, complete, name, price, taxOverride) ==
  [kind |-> kind, id |-> id, delta |-> delta, stockQty |-> stockQty, complete |-> complete,
   name |-> name, price |-> price, taxOverride |-> taxOverride]

\* the requests to /api/products: PATCH /:id/stock with or without a delta,
\* PUT /:id with or without a stockQty, POST / with or without a stockQty and
\* with or without its required fields (a complete POST has a name and a price)
AdminCall(kind, id, delta, stockQty, complete) ==
  IF kind = "create" /\ complete
    THEN ProductCall(kind, id, delta, stockQty, complete, <<"Tea">>, <<1508>>, Undefined)
    ELSE ProductCall(kind, id, delta, stockQty, complete, Undefined, Undefined, Undefined)

\* (p1 has a row, p3 has none)
AdminCalls ==
  {AdminCall("patch", "p1", d, Undefined, TRUE) : d \in {Undefined, <<1>>, <<0 - 1>>}}
    \cup {AdminCall("put", "p1", Undefined, q, TRUE) : q \in {Undefined, <<2>>, <<0 - 1>>}}
    \cup {AdminCall("create", "p3", Undefined, q, TRUE) : q \in {Undefined, <<1>>, <<0 - 1>>}}
    \cup {AdminCall("patch", "p3", <<1>>, Undefined, TRUE),
          AdminCall("put", "p3", Undefined, <<2>>, TRUE),
          AdminCall("create", "p1", Undefined, <<1>>, TRUE),
          AdminCall("create", "p3", Undefined, <<1>>, FALSE)}

\* the handler has answered: its locals are gone, the call and the status remain
AdminReturned(q, status) ==
  [NewAdmin EXCEPT !.pc = "done", !.kind = q.kind, !.id = q.id, !.delta = q.delta,
                   !.stockQty = q.stockQty, !.status = status]

\* the row of product p exists for connection c: committed, or written by c's
\* own open transaction
RowSeenBy(c, p) == p \in DOMAIN products \/ p \in DOMAIN tx[c].stock

\* db.query(): the pool runs the statement on one of its free connections
\* (of free connections in the same state, the lowest-numbered stands for all)
PoolConnections == {c \in pool : \A d \in pool : d < c => tx[d] # tx[c]}

\* a statement that sets stock_qty of row p to v on connection c: committed at
\* once (autocommit), unless the connection was released with a transaction
\* open, which then holds the write and the row's lock
WriteStock(c, p, v) ==
  IF tx[c].active
    THEN /\ tx' = [tx EXCEPT ![c].stock = (p :> v) @@ @]
         /\ lockOwner' = [lockOwner EXCEPT ![p] = c]
         /\ UNCHANGED products
    ELSE /\ products' = (p :> v) @@ products
         /\ UNCHANGED <<tx, lockOwner>>

\* currentStock + Number(delta)
NewStock(currentStock, delta) == currentStock + delta[1]

\* the row of products after UPDATE ... name = COALESCE(?, name), price =
\* COALESCE(?, price), tax_override = ? (an absent taxOverride is bound as NULL)
UpdatedRow(row, q) ==
  ProductRow(IF q.name = Undefined THEN row.name ELSE q.name[1],
             IF q.price = Undefined THEN row.price ELSE q.price[1],
             q.taxOverride, q.taxOverride)

\* the row INSERT INTO products writes: ..., name, price, ..., taxOverride || null
InsertedRow(q) == ProductRow(q.name[1], q.price[1], q.taxOverride, OrNull(q.taxOverride))

\* product_id of the invoice_items rows of a deleted product:
\* FOREIGN KEY (product_id) REFERENCES products(id) ON DELETE SET NULL
NullProductId == "NULL"

\* the request arrives; the checks made before the first statement
AdminReceiveFrom(a, calls) ==
  /\ admin[a].pc = "idle"
  /\ \A b \in Admins : b < a => admin[b].pc # "idle"
  /\ \E call \in calls :
       LET q == [NewAdmin EXCEPT !.kind = call.kind, !.id = call.id,
                                 !.delta = call.delta, !.stockQty = call.stockQty,
                                 !.name = call.name, !.price = call.price,
                                 !.taxOverride = call.taxOverride] IN
       admin' = [admin EXCEPT ![a] =
         CASE call.kind = "patch" ->
                IF call.delta = Undefined THEN AdminReturned(q, 400)
                ELSE [q EXCEPT !.pc = "select"]
           [] call.kind = "put" -> [q EXCEPT !.pc = "update"]
           [] call.kind = "delete" -> [q EXCEPT !.pc = "delete"]
           [] call.kind = "create" ->
                IF ~call.complete THEN AdminReturned(q, 400)
                ELSE [q EXCEPT !.pc = "insert"]]
  /\ UNCHANGED <<products, invoices, invoice_items, tx, lockOwner, pool, req, initialStock, client>>

AdminReceive(a) == AdminReceiveFrom(a, AdminCalls)

\* PATCH: SELECT stock_qty FROM products WHERE id = ? (a plain read: it takes
\* no lock and waits for none), then the check of the new stock
PatchSelect(a) ==
  /\ admin[a].pc = "select"
  /\ \E c \in PoolConnections :
       IF ~RowSeenBy(c, admin[a].id)
         THEN admin' = [admin EXCEPT ![a] = AdminReturned(@, 404)]
         ELSE LET currentStock == StockSeenBy(c, admin[a].id) IN
              IF NewStock(currentStock, admin[a].delta) < 0
                THEN admin' = [admin EXCEPT ![a] = AdminReturned(@, 400)]
                ELSE admin' = [admin EXCEPT ![a].pc = "update",
                                            ![a].currentStock = currentStock]
  /\ UNCHANGED <<products, invoices, invoice_items, tx, lockOwner, pool, req, initialStock, client>>

\* PATCH: UPDATE products SET stock_qty = ? WHERE id = ?
PatchUpdate(a) ==
  /\ admin[a].pc = "update"
  /\ admin[a].kind = "patch"
  /\ \E c \in PoolConnections :
       /\ Lockable(c, admin[a].id)
       /\ IF ~RowSeenBy(c, admin[a].id)
            THEN /\ admin' = [admin EXCEPT ![a] = AdminReturned(@, 404)]
                 /\ UNCHANGED <<products, tx, lockOwner>>
            ELSE /\ WriteStock(c, admin[a].id,
                               NewStock(admin[a].currentStock, admin[a].delta))
                 /\ admin' = [admin EXCEPT ![a].pc = "reselect"]
  /\ UNCHANGED <<invoices, invoice_items, pool, req, initialStock, client>>

\* PATCH: the SELECT of the updated stock, and the answer
PatchReselect(a) ==
  /\ admin[a].pc = "reselect"
  /\ pool # {}
  /\ admin' = [admin EXCEPT ![a] = AdminReturned(@, 200)]
  /\ UNCHANGED <<products, invoices, invoice_items, tx, lockOwner, pool, req, initialStock, client>>

\* PUT: UPDATE products SET ..., stock_qty = COALESCE(?, stock_qty), ... WHERE id = ?
PutUpdate(a) ==
  /\ admin[a].pc = "update"
  /\ admin[a].kind = "put"
  /\ \E c \in PoolConnections :
       /\ Lockable(c, admin[a].id)
       /\ IF ~RowSeenBy(c, admin[a].id)
            THEN /\ admin' = [admin EXCEPT ![a] = AdminReturned(@, 404)]
                 /\ UNCHANGED <<products, tx, lockOwner, catalog>>
            ELSE /\ WriteStock(c, admin[a].id,
                               IF admin[a].stockQty = Undefined
                                 THEN StockSeenBy(c, admin[a].id)
                                 ELSE admin[a].stockQty[1])
                 /\ catalog' = [catalog EXCEPT !.rows[admin[a].id] = UpdatedRow(@, admin[a])]
                 /\ admin' = [admin EXCEPT ![a] = AdminReturned(@, 200)]
  /\ UNCHANGED <<invoices, invoice_items, pool, req, initialStock, cart, props, pos, offline>>

\* POST: INSERT INTO products (..., stock_qty, ...) VALUES (..., stockQty || 0, ...);
\* an id that has a row is a duplicate key
CreateInsert(a) ==
  /\ admin[a].pc = "insert"
  /\ \E c \in PoolConnections :
       /\ Lockable(c, admin[a].id)
       /\ IF RowSeenBy(c, admin[a].id)
            THEN /\ admin' = [admin EXCEPT ![a] = AdminReturned(@, 500)]
                 /\ UNCHANGED <<products, tx, lockOwner, catalog>>
            ELSE /\ WriteStock(c, admin[a].id, OrZero(admin[a].stockQty))
                 /\ catalog' = [catalog EXCEPT !.rows =
                                  (admin[a].id :> InsertedRow(admin[a])) @@ @]
                 /\ admin' = [admin EXCEPT ![a] = AdminReturned(@, 201)]
  /\ UNCHANGED <<invoices, invoice_items, pool, req, initialStock, cart, props, pos, offline>>

\* DELETE FROM products WHERE id = ?: the row goes, and with it the product_id
\* of the invoice_items rows that refer to it (on a connection that was
\* released with a transaction open the DELETE would stay uncommitted: the
\* statement is followed here on the other connections only)
DeleteProduct(a) ==
  /\ admin[a].pc = "delete"
  /\ \E c \in PoolConnections :
       /\ ~tx[c].active
       /\ Lockable(c, admin[a].id)
       /\ IF admin[a].id \notin DOMAIN products
            THEN /\ admin' = [admin EXCEPT ![a] = AdminReturned(@, 404)]
                 /\ UNCHANGED <<products, invoice_items, catalog>>
            ELSE /\ products' = [p \in DOMAIN products \ {admin[a].id} |-> products[p]]
                 /\ invoice_items' =
                      {[row EXCEPT !.product_id =
                          IF @ = admin[a].id THEN NullProductId ELSE @] : row \in invoice_items}
                 /\ catalog' = [catalog EXCEPT !.rows =
                                  [p \in DOMAIN @ \ {admin[a].id} |-> @[p]]]
                 /\ admin' = [admin EXCEPT ![a] = AdminReturned(@, 200)]
  /\ UNCHANGED <<invoices, tx, lockOwner, pool, req, initialStock, cart, props, pos, offline>>

\* the UPDATE or INSERT waits for the row's lock until InnoDB gives it up: 500
AdminLockWaitTimeout(a) ==
  /\ admin[a].pc \in {"update", "insert", "delete"}
  /\ \E c \in PoolConnections : ~Lockable(c, admin[a].id)
  /\ admin' = [admin EXCEPT ![a] = AdminReturned(@, 500)]
  /\ UNCHANGED <<products, invoices, invoice_items, tx, lockOwner, pool, req, initialStock, client>>

ServerNext ==
  \/ \E r \in Requests : ReceiveFrom(r, ContendingBodies) \/ Handler(r)
  \/ \E a \in Admins :
       \/ AdminReceive(a)
       \/ PatchSelect(a)
       \/ PatchUpdate(a)
       \/ PatchReselect(a)
       \/ PutUpdate(a)
       \/ CreateInsert(a)
       \/ AdminLockWaitTimeout(a)

SpecServer == Init /\ [][ServerNext]_vars

(* ---- C13 ---- *)

\* the sum of the deltas of the stock adjustments of product p that were applied
RECURSIVE AppliedDelta(_, _)
AppliedDelta(as, p) ==
  IF as = {} THEN 0
  ELSE LET a == CHOOSE b \in as : TRUE IN
         (IF admin[a].pc = "done" /\ admin[a].kind = "patch" /\ admin[a].id = p
               /\ admin[a].status = 200
            THEN admin[a].delta[1] ELSE 0)
           + AppliedDelta(as \ {a}, p)

\* product p was written by invoices and stock adjustments only
OnlyAdjusted(p) ==
  \A a \in Admins : admin[a].pc = "idle" \/ admin[a].kind = "patch" \/ admin[a].id # p

\* no request is running and no transaction is open
Quiescent ==
  /\ \A r \in Requests : req[r].pc \in {"idle", "done"}
  /\ \A a \in Admins : admin[a].pc \in {"idle", "done"}
  /\ \A c \in Connections : ~tx[c].active

\* every request so far carried its required fields and none was failed by
\* the database: no connection was ever released with a transaction open and
\* no statement was undone by a failure
NoneFailed ==
  /\ \A r \in Requests :
       req[r].pc = "idle" \/ (~MissingRequiredFields(req[r].body) /\ ~Answered(r, 500))
  /\ \A a \in Admins : admin[a].status # 500

\* C13: with stock adjustments (PATCH /:id/stock) interleaved with issuances
\* in any way (no request failed by the database), the quantity of a product
\* on the committed invoices never exceeds its initial stock plus the applied
\* adjustments, and when nothing is running its stock_qty is the initial stock
\* plus the applied deltas minus the invoiced quantity.
C13_NoLostAdjustment ==
  \A p \in DOMAIN initialStock :
    (OnlyAdjusted(p) /\ NoneFailed) =>
      /\ (\A a \in Admins : admin[a].pc \in {"idle", "done"}) =>
           RowQty(invoice_items, p) <= initialStock[p] + AppliedDelta(Admins, p)
      /\ Quiescent =>
           products[p] = initialStock[p] + AppliedDelta(Admins, p) - RowQty(invoice_items, p)

(* ---- C14 ---- *)

\* C14: stock_qty is never negative, neither as committed nor as written by an
\* open transaction, whatever issuances, stock adjustments, product creations
\* and product updates are made and however they interleave.
C14_ServerStockNeverNegative ==
  /\ \A p \in DOMAIN products : products[p] >= 0
  /\ \A c \in Connections : \A p \in DOMAIN tx[c].stock : tx[c].stock[p] >= 0

(* ---- C18 ---- *)

\* C18: on every committed invoices row, grand_total is subtotal minus
\* discount_total plus tax_total to within one cent.
C18_PersistedTotalsConsistent ==
  \A row \in invoices :
    LET d == row.grand_total - (row.subtotal - row.discount_total + row.tax_total) IN
    d \in (0 - 1)..1

(* ---- the POS page: the cart ---- *)

\* x * (percent / 100), for an amount x that is a multiple of 100
PercentOfAmount(x, percent) == (x \div 100) * percent

\* (a mutant: the tax is taken of the price before the discount)
UnitFinalTaxOnBase(price, discountPercent, taxPercent) ==
  LET basePrice == price * Micro
      discountAmt == PercentOfAmount(basePrice, discountPercent)
      taxAmt == PercentOfAmount(basePrice, taxPercent) IN
  basePrice - discountAmt + taxAmt

\* the price of one unit after discount and tax
UnitFinal(price, discountPercent, taxPercent) ==
  LET basePrice == price * Micro
      discountAmt == PercentOfAmount(basePrice, discountPercent)
      taxableAmt == basePrice - discountAmt
      taxAmt == PercentOfAmount(taxableAmt, taxPercent) IN
  taxableAmt + taxAmt

\* categories.find(c => c.id === product.categoryId), when there is one
HasCategory(product) == product.categoryId \in DOMAIN props.categories
CategoryOf(product) == props.categories[product.categoryId]

\* product.taxOverride when it is neither null nor undefined, else category?.defaultGST || 0
DefaultTax(product) ==
  IF product.taxOverride # Undefined THEN product.taxOverride[1]
  ELSE IF HasCategory(product) THEN CategoryOf(product).defaultGST
  ELSE 0

\* store.globalDiscount || category?.defaultDiscount || 0
DefaultDiscount(product) ==
  IF OrZero(props.store.globalDiscount) # 0 THEN props.store.globalDiscount[1]
  ELSE IF HasCategory(product) THEN OrZero(CategoryOf(product).defaultDiscount)
  ELSE 0

\* the positions of the lines of product id (prev.find, prev.map)
LinesWith(id) == {k \in 1..Len(cart) : cart[k].id = id}

\* { ...product, quantity: 1, appliedTaxPercent, appliedDiscountPercent, lineTotal }
NewLine(product) ==
  [id |-> product.id, name |-> product.name, price |-> product.price,
   stockQty |-> product.stockQty, taxOverride |-> product.taxOverride,
   categoryId |-> product.categoryId,
   quantity |-> 1,
   appliedTaxPercent |-> DefaultTax(product),
   appliedDiscountPercent |-> DefaultDiscount(product),
   lineTotal |-> UnitFinal(product.price, DefaultDiscount(product), DefaultTax(product))]

\* (a mutant: the line takes the catalog's tax when its product is added again)
RequantifiedFromCatalog(item, newQty) ==
  LET tax == IF item.id \in DOMAIN props.products
               THEN DefaultTax(props.products[item.id]) ELSE item.appliedTaxPercent IN
  [item EXCEPT !.quantity = newQty, !.appliedTaxPercent = tax,
               !.lineTotal = UnitFinal(item.price, item.appliedDiscountPercent, tax) * newQty]

\* { ...item, quantity: newQty, lineTotal: unitFinal * newQty }
Requantified(item, newQty) ==
  [item EXCEPT !.quantity = newQty,
               !.lineTotal = UnitFinal(item.price, item.appliedDiscountPercent,
                                       item.appliedTaxPercent) * newQty]

Max(a, b) == IF a >= b THEN a ELSE b
Min(a, b) == IF a <= b THEN a ELSE b

\* (a mutant: a product in the cart is added again whatever its stock)
AddToCartUnchecked(id) ==
  LET product == props.products[id] IN
  /\ id \in DOMAIN props.products
  /\ IF product.stockQty <= 0
       THEN UNCHANGED cart
       ELSE IF LinesWith(id) # {}
         THEN LET existing == cart[CHOOSE k \in LinesWith(id) : \A j \in LinesWith(id) : k <= j] IN
              cart' = [k \in 1..Len(cart) |->
                         IF cart[k].id = id
                           THEN Requantified(cart[k], existing.quantity + 1)
                           ELSE cart[k]]
         ELSE cart' = Append(cart, NewLine(product))
  /\ UNCHANGED <<props, pos, catalog, server, offline>>

\* addToCart(product), product being one of the products rendered
AddToCart(id) ==
  LET product == props.products[id] IN
  /\ id \in DOMAIN props.products
  /\ IF product.stockQty <= 0
       THEN UNCHANGED cart
       ELSE IF LinesWith(id) # {}
         THEN LET existing == cart[CHOOSE k \in LinesWith(id) : \A j \in LinesWith(id) : k <= j] IN
              IF existing.quantity + 1 > product.stockQty
                THEN UNCHANGED cart
                ELSE cart' = [k \in 1..Len(cart) |->
                                IF cart[k].id = id
                                  THEN Requantified(cart[k], existing.quantity + 1)
                                  ELSE cart[k]]
         ELSE cart' = Append(cart, NewLine(product))
  /\ UNCHANGED <<props, pos, catalog, server, offline>>

\* removeFromCart(id)
RemoveFromCart(id) ==
  /\ LinesWith(id) # {}
  /\ cart' = SelectSeq(cart, LAMBDA item : item.id # id)
  /\ UNCHANGED <<props, pos, catalog, server, offline>>

\* (a mutant: the new quantity is not floored at 1)
UpdateQuantityUnfloored(id, delta) ==
  /\ LinesWith(id) # {}
  /\ cart' = [k \in 1..Len(cart) |->
       LET item == cart[k]
           currentStock == IF id \in DOMAIN props.products
                             THEN props.products[id].stockQty ELSE item.stockQty
           newQty == item.quantity + delta IN
       IF item.id # id THEN item
       ELSE IF delta > 0 /\ newQty > currentStock THEN item
       ELSE Requantified(item, newQty)]
  /\ UNCHANGED <<props, pos, catalog, server, offline>>

\* updateQuantity(id, delta): the - and + buttons of a line
UpdateQuantity(id, delta) ==
  /\ LinesWith(id) # {}
  /\ cart' = [k \in 1..Len(cart) |->
       LET item == cart[k]
           currentStock == IF id \in DOMAIN props.products
                             THEN props.products[id].stockQty ELSE item.stockQty
           newQty == Max(1, item.quantity + delta) IN
       IF item.id # id THEN item
       ELSE IF delta > 0 /\ newQty > currentStock THEN item
       ELSE Requantified(item, newQty)]
  /\ UNCHANGED <<props, pos, catalog, server, offline>>

\* updateDiscount(id, newDiscountPercent): the discount field of a line
UpdateDiscount(id, newDiscountPercent) ==
  /\ LinesWith(id) # {}
  /\ cart' = [k \in 1..Len(cart) |->
       LET item == cart[k]
           validDisc == Min(100, Max(0, newDiscountPercent)) IN
       IF item.id # id THEN item
       ELSE [item EXCEPT !.appliedDiscountPercent = validDisc,
                         !.lineTotal = UnitFinal(item.price, validDisc,
                                                 item.appliedTaxPercent) * item.quantity]]
  /\ UNCHANGED <<props, pos, catalog, server, offline>>

\* (a mutant: the tax of a line is taken of its amount before the discount)
RECURSIVE TotalsTaxOnBase(_)
TotalsTaxOnBase(lines) ==
  IF lines = <<>>
    THEN [subtotal |-> 0, taxTotal |-> 0, discountTotal |-> 0, grandTotal |-> 0]
    ELSE LET rest == TotalsTaxOnBase(Tail(lines))
             item == Head(lines)
             baseTotal == item.price * Micro * item.quantity
             itemDisc == PercentOfAmount(baseTotal, item.appliedDiscountPercent)
             itemTax == PercentOfAmount(baseTotal, item.appliedTaxPercent)
             sub == rest.subtotal + baseTotal
             disc == rest.discountTotal + itemDisc
             tax == rest.taxTotal + itemTax IN
         [subtotal |-> sub, taxTotal |-> tax, discountTotal |-> disc,
          grandTotal |-> sub - disc + tax]

\* the totals of the cart: subtotal, taxTotal, discountTotal, grandTotal
RECURSIVE Totals(_)
Totals(lines) ==
  IF lines = <<>>
    THEN [subtotal |-> 0, taxTotal |-> 0, discountTotal |-> 0, grandTotal |-> 0]
    ELSE LET rest == Totals(Tail(lines))
             item == Head(lines)
             baseTotal == item.price * Micro * item.quantity
             itemDisc == PercentOfAmount(baseTotal, item.appliedDiscountPercent)
             taxable == baseTotal - itemDisc
             itemTax == PercentOfAmount(taxable, item.appliedTaxPercent)
             sub == rest.subtotal + baseTotal
             disc == rest.discountTotal + itemDisc
             tax == rest.taxTotal + itemTax IN
         [subtotal |-> sub, taxTotal |-> tax, discountTotal |-> disc,
          grandTotal |-> sub - disc + tax]

\* Number(x.toFixed(2)) of an amount x >= 0, in cents (an amount that lies on
\* half a cent goes up here; in the browser the double nearest to it decides)
ToFixed2(x) == (x + Micro \div 2) \div Micro

\* the sum of the lineTotal of the lines
RECURSIVE SumOfLineTotals(_)
SumOfLineTotals(items) ==
  IF items = <<>> THEN 0 ELSE Head(items).lineTotal + SumOfLineTotals(Tail(items))

\* the line of the payload for a line of the cart
PayloadItem(item) ==
  [productId |-> item.id, name |-> item.name, quantity |-> item.quantity,
   price |-> item.price, appliedTaxPercent |-> item.appliedTaxPercent,
   appliedDiscountPercent |-> item.appliedDiscountPercent,
   lineTotal |-> ToFixed2(item.lineTotal)]

\* the body finalizePayment sends to POST /api/invoices (money in cents)
Payload(lines) ==
  LET t == Totals(lines) IN
  [storeId |-> props.store.id,
   items |-> [k \in 1..Len(lines) |-> PayloadItem(lines[k])],
   subtotal |-> ToFixed2(t.subtotal), taxTotal |-> ToFixed2(t.taxTotal),
   discountTotal |-> ToFixed2(t.discountTotal), grandTotal |-> ToFixed2(t.grandTotal)]

\* (a mutant: the page is not rendered again before the next click)
FinalizePaymentStale ==
  /\ cart # <<>>
  /\ ~pos.rendered
  /\ pos' = [pos EXCEPT !.isSubmitting = TRUE, !.payload = <<Payload(cart)>>,
                        !.inFlight = @ + 1, !.ignored = FALSE]
  /\ UNCHANGED <<cart, props, catalog, server, offline>>

\* finalizePayment, called by a click on Complete Payment, up to the fetch:
\* nothing to pay or a submission in flight returns at once, else the payload
\* is built and sent. isSubmitting is the value of the render the handler
\* belongs to (rendered); setIsSubmitting(true) runs before the first await,
\* inside the click's handler, and React renders the updates of an event
\* handler before it dispatches the next event
FinalizePayment ==
  /\ cart # <<>>
  /\ ~pos.rendered
  /\ pos' = [pos EXCEPT !.isSubmitting = TRUE, !.rendered = TRUE,
                        !.payload = <<Payload(cart)>>,
                        !.inFlight = @ + 1, !.ignored = FALSE]
  /\ UNCHANGED <<cart, props, catalog, server, offline>>

\* a click on Complete Payment that sends nothing: the button is rendered
\* disabled, and finalizePayment would return at its guard
ClickIgnored ==
  /\ cart # <<>>
  /\ pos.rendered
  /\ ~pos.ignored
  /\ pos' = [pos EXCEPT !.ignored = TRUE]
  /\ UNCHANGED <<cart, props, catalog, server, offline>>

\* the page is rendered with the isSubmitting that finally has set
Render ==
  /\ pos.rendered # pos.isSubmitting
  /\ pos' = [pos EXCEPT !.rendered = pos.isSubmitting]
  /\ UNCHANGED <<cart, props, catalog, server, offline>>

\* the quantity sold of product id by the payload in flight
RECURSIVE SoldIn(_, _)
SoldIn(items, id) ==
  IF items = <<>> THEN 0
  ELSE (IF Head(items).productId = id THEN Head(items).quantity ELSE 0)
         + SoldIn(Tail(items), id)

\* handleSaveInvoice's optimistic entry of the local invoice list,
\* { ...invoice, synced: false }, kept by what it sold
SavedInvoice(payload) ==
  [items |-> [k \in 1..Len(payload.items) |->
                [productId |-> payload.items[k].productId,
                 quantity |-> payload.items[k].quantity]],
   synced |-> FALSE]

\* the response is ok: the invoice joins the local list (onSaveInvoice), the
\* stock of the sold products is lowered locally, the cart is emptied; finally
\* the flag is reset
CheckoutSucceeds ==
  /\ pos.payload # NoPayload
  /\ props' = [props EXCEPT !.products =
                 [id \in DOMAIN @ |->
                    [@[id] EXCEPT !.stockQty = @ - SoldIn(pos.payload[1].items, id)]],
                             !.invoices = <<SavedInvoice(pos.payload[1])>> \o @]
  /\ cart' = <<>>
  /\ pos' = [pos EXCEPT !.isSubmitting = FALSE, !.payload = NoPayload,
                        !.inFlight = @ - 1]
  /\ UNCHANGED <<catalog, server, offline>>

\* (a mutant: the cart is emptied whatever the response)
CheckoutFailsClearing ==
  /\ pos.payload # NoPayload
  /\ cart' = <<>>
  /\ pos' = [pos EXCEPT !.isSubmitting = FALSE, !.payload = NoPayload,
                        !.inFlight = @ - 1]
  /\ UNCHANGED <<props, catalog, server, offline>>

\* the response is not ok, or the fetch fails: an alert; finally the flag is reset
CheckoutFails ==
  /\ pos.payload # NoPayload
  /\ pos' = [pos EXCEPT !.isSubmitting = FALSE, !.payload = NoPayload,
                        !.inFlight = @ - 1]
  /\ UNCHANGED <<cart, props, catalog, server, offline>>

(* ---- the catalog: what the store admin changes while the cart is open ---- *)

\* prod.tax_override ? parseFloat(prod.tax_override) : null: the driver hands a
\* DECIMAL over as a string, and "0.00" is truthy
ReadTaxOverride(column) ==
  IF column # Undefined THEN <<column[1] \div 100>> ELSE Undefined

\* the values the admin may give a product, a category and the store
TaxOverrides == {Undefined, <<0>>, <<12>>}
ProductEdits(product) ==
  {[product EXCEPT !.taxOverride = v] : v \in TaxOverrides \ {product.taxOverride}}
    \cup {[product EXCEPT !.price = @ + 100, !.name = "Renamed"]}
CategoryEdits == {[defaultGST |-> 18, defaultDiscount |-> <<10>>],
                  [defaultGST |-> 0, defaultDiscount |-> <<150>>]}
StoreEdits == {<<0>>, <<5>>}

CanEdit == catalog.edits < MaxEdits

\* StoreAdmin creates product p3: POST /api/products, then the product joins
\* the client's list as it was entered
AddProduct ==
  /\ CanEdit
  /\ "p3" \notin DOMAIN props.products
  /\ \E v \in TaxOverrides : \E c \in {"c1", "c9"} :
       /\ props' = [props EXCEPT !.products =
                      @ @@ ("p3" :> ClientProduct("p3", "Tea", 1508, 1, v, c))]
       /\ catalog' = [edits |-> catalog.edits + 1,
                      rows |-> catalog.rows @@
                                 ("p3" :> ProductRow("Tea", 1508, v, OrNull(v)))]
  /\ UNCHANGED <<cart, pos, server, offline>>

\* StoreAdmin updates a product: PUT /api/products/:id, then the product is
\* replaced in the client's list
UpdateProduct(id) ==
  /\ CanEdit
  /\ id \in DOMAIN props.products
  /\ \E updated \in ProductEdits(props.products[id]) :
       /\ props' = [props EXCEPT !.products[id] = updated]
       /\ catalog' = [edits |-> catalog.edits + 1,
                      rows |-> [catalog.rows EXCEPT ![id] =
                                  ProductRow(updated.name, updated.price,
                                             updated.taxOverride, updated.taxOverride)]]
  /\ UNCHANGED <<cart, pos, server, offline>>

\* the category's defaults or the store's discount are changed
UpdateCategory ==
  /\ CanEdit
  /\ \E c \in CategoryEdits \ {props.categories["c1"]} :
       props' = [props EXCEPT !.categories["c1"] = c]
  /\ catalog' = [catalog EXCEPT !.edits = @ + 1]
  /\ UNCHANGED <<cart, pos, server, offline>>

UpdateStore ==
  /\ CanEdit
  /\ \E g \in StoreEdits \ {props.store.globalDiscount} :
       props' = [props EXCEPT !.store.globalDiscount = g]
  /\ catalog' = [catalog EXCEPT !.edits = @ + 1]
  /\ UNCHANGED <<cart, pos, server, offline>>

\* refreshData (POS calls it when it mounts): the products are read from
\* GET /api/products
RefreshData ==
  /\ props' = [props EXCEPT !.products =
                 [id \in DOMAIN @ |->
                    [@[id] EXCEPT !.taxOverride =
                       ReadTaxOverride(catalog.rows[id].tax_override)]]]
  /\ props' # props
  /\ UNCHANGED <<cart, pos, catalog, server, offline>>

\* what the discount field of a line may be given
DiscountInputs == {0 - 5, 15, 150}

\* the register (the product tiles and the lines of the cart) can be used: the
\* payment dialog covers it while a payment is being finalized, and until the
\* page is rendered again
RegisterOpen == ~pos.isSubmitting /\ ~pos.rendered

ClientNext ==
  \/ \E id \in ProductIds :
       \/ RegisterOpen /\ AddToCart(id)
       \/ RegisterOpen /\ RemoveFromCart(id)
       \/ RegisterOpen /\ \E delta \in {0 - 1, 1} : UpdateQuantity(id, delta)
       \/ RegisterOpen /\ \E percent \in DiscountInputs : UpdateDiscount(id, percent)
       \/ UpdateProduct(id)
  \/ FinalizePayment
  \/ CheckoutSucceeds
  \/ CheckoutFails
  \/ Render
  \/ AddProduct
  \/ UpdateCategory
  \/ UpdateStore
  \/ RefreshData

\* the server at rest while the page is used
ServerAtRest ==
  /\ products = [p \in StockedProducts |-> MaxStock]
  /\ initialStock = products
  /\ invoices = {}
  /\ invoice_items = {}
  /\ tx = [c \in Connections |-> NoTx]
  /\ lockOwner = [p \in ProductIds |-> NoConnection]
  /\ pool = Connections
  /\ req = [r \in Requests |-> NewRequest]
  /\ admin = [a \in Admins |-> NewAdmin]

InitClient == ServerAtRest /\ ClientInit

SpecClient == InitClient /\ [][ClientNext]_vars

(* ---- C15 ---- *)

\* price * quantity * (1 - discount/100) * (1 + tax/100) for a price in cents
\* and whole percentages, in 1/Micro of a cent (Micro being 100 * 100)
LinePrice(item) ==
  item.price * item.quantity * (100 - item.appliedDiscountPercent)
                             * (100 + item.appliedTaxPercent)

PricedLine(item) ==
  /\ item.price >= 0
  /\ item.quantity >= 1
  /\ item.appliedDiscountPercent \in 0..100
  /\ item.appliedTaxPercent \in 0..100

\* C15: whatever addToCart, updateQuantity, updateDiscount and removeFromCart
\* were made, the lineTotal of every line of the cart is price * quantity *
\* (1 - appliedDiscountPercent/100) * (1 + appliedTaxPercent/100) to within
\* one cent.
C15_LinePricing ==
  \A k \in 1..Len(cart) :
    PricedLine(cart[k]) =>
      cart[k].lineTotal - LinePrice(cart[k]) \in (0 - Micro)..Micro

\* a line of two units with a tax, whose discount the cashier has set to 15 %
C15_Witness ==
  \E k \in 1..Len(cart) :
    /\ PricedLine(cart[k])
    /\ cart[k].quantity = 2
    /\ cart[k].appliedDiscountPercent = 15
    /\ cart[k].appliedTaxPercent > 0

(* ---- C16 ---- *)

\* the components of a line, in 1/Micro of a cent (Micro being 100 * 100):
\* price * quantity, its discount, and the tax of what is left
LineBase(item) == item.price * item.quantity * 100 * 100
LineDiscount(item) == item.price * item.quantity * item.appliedDiscountPercent * 100
LineTaxAmount(item) ==
  item.price * item.quantity * (100 - item.appliedDiscountPercent) * item.appliedTaxPercent
LineTotalOf(item) == item.lineTotal

RECURSIVE SumSeq(_)
SumSeq(amounts) ==
  IF amounts = <<>> THEN 0 ELSE Head(amounts) + SumSeq(Tail(amounts))

SumOver(lines, Component(_)) == SumSeq([k \in 1..Len(lines) |-> Component(lines[k])])

Within(x, y, tolerance) == x - y \in (0 - tolerance)..tolerance

\* C16: the totals shown for the cart satisfy grandTotal = subtotal -
\* discountTotal + taxTotal, subtotal is the sum of price * quantity,
\* discountTotal the sum of the lines' discounts, taxTotal the sum of the lines'
\* taxes, and grandTotal the sum of the lines' lineTotal, each to within one cent,
\* in every state of the cart.
C16_AggregateConsistency ==
  LET t == Totals(cart) IN
  /\ Within(t.grandTotal, t.subtotal - t.discountTotal + t.taxTotal, Micro)
  /\ Within(t.subtotal, SumOver(cart, LineBase), Micro)
  /\ Within(t.discountTotal, SumOver(cart, LineDiscount), Micro)
  /\ Within(t.taxTotal, SumOver(cart, LineTaxAmount), Micro)
  /\ Within(t.grandTotal, SumOver(cart, LineTotalOf), Micro)

\* a cart of two lines, one of them discounted and of two units
C16_Witness ==
  /\ Len(cart) = 2
  /\ \E k \in 1..Len(cart) :
       /\ cart[k].quantity = 2
       /\ cart[k].appliedDiscountPercent = 15
       /\ cart[k].appliedTaxPercent > 0
  /\ Totals(cart).taxTotal > 0
  /\ Totals(cart).discountTotal > 0

(* ---- C17 ---- *)

\* an amount that does not lie on half a cent: toFixed(2) rounds it the same
\* way whatever the double nearest to it is
OffHalfCent(x) == x % Micro # Micro \div 2

\* C17: in the payload sent to POST /api/invoices, grandTotal is, to the cent,
\* the sum of the lineTotal of the items it carries (no amount of the cart
\* lying on half a cent).
C17_PayloadTotalIsSumOfLines ==
  (/\ pos.payload # NoPayload
   /\ OffHalfCent(Totals(cart).grandTotal)
   /\ \A k \in 1..Len(cart) : OffHalfCent(cart[k].lineTotal))
    => pos.payload[1].grandTotal = SumOfLineTotals(pos.payload[1].items)

(* ---- C19 ---- *)

\* the step adds a line to the cart
AddsLine == Len(cart') = Len(cart) + 1

\* C19: when a product that is not in the cart is added, the new line has
\* quantity 1, the tax the product was saved with when it has one (0 included),
\* else the defaultGST of its category, else 0, and the store's globalDiscount
\* when there is one other than 0, else the defaultDiscount of its category,
\* else 0.
C19_DefaultResolution ==
  [][AddsLine =>
       LET line == cart'[Len(cart')]
           product == props.products[line.id]
           saved == catalog.rows[line.id].saved
           categorized == product.categoryId \in DOMAIN props.categories
           category == props.categories[product.categoryId] IN
       /\ line.quantity = 1
       /\ line.appliedTaxPercent =
            (IF saved # Undefined THEN saved[1]
             ELSE IF categorized THEN category.defaultGST
             ELSE 0)
       /\ line.appliedDiscountPercent =
            (IF props.store.globalDiscount \notin {Undefined, <<0>>}
               THEN props.store.globalDiscount[1]
             ELSE IF categorized /\ category.defaultDiscount # Undefined
               THEN category.defaultDiscount[1]
             ELSE 0)]_vars

(* ---- C20 ---- *)

\* C20: in every step, a line that is in the cart before and after it keeps its
\* price, its name and its appliedTaxPercent; and when its
\* appliedDiscountPercent changes, the step changes nothing but the discount
\* (and with it the lineTotal) of that one line: it is neither an addition, nor
\* a change of quantity, nor an edit of the catalog.
C20_LinesFrozenAtAddTime ==
  [][\A k \in 1..Len(cart) : \A j \in 1..Len(cart') :
       cart'[j].id = cart[k].id =>
         /\ cart'[j].price = cart[k].price
         /\ cart'[j].name = cart[k].name
         /\ cart'[j].appliedTaxPercent = cart[k].appliedTaxPercent
         /\ cart'[j].appliedDiscountPercent # cart[k].appliedDiscountPercent =>
              /\ j = k
              /\ Len(cart') = Len(cart)
              /\ \A i \in 1..Len(cart) : i # k => cart'[i] = cart[i]
              /\ cart'[k] = [cart[k] EXCEPT
                               !.appliedDiscountPercent = cart'[k].appliedDiscountPercent,
                               !.lineTotal = cart'[k].lineTotal]
              /\ UNCHANGED <<props, pos, catalog>>]_vars

\* a line of two units with the discount the cashier gave it, whose product
\* has since got another price, another name and another tax in the catalog
C20_Witness ==
  \E k \in 1..Len(cart) :
    LET line == cart[k] IN
    /\ line.id \in DOMAIN props.products
    /\ line.quantity = 2
    /\ line.appliedDiscountPercent = 15
    /\ props.products[line.id].price # line.price
    /\ props.products[line.id].name # line.name
    /\ DefaultTax(props.products[line.id]) # line.appliedTaxPercent
    /\ DefaultDiscount(props.products[line.id]) # line.appliedDiscountPercent

(* ---- C21 ---- *)

\* C21: the cart never holds two lines of one product, and every addToCart of
\* a product leaves the cart as it is when the product's stockQty is 0 or
\* less, or when the product is in the cart with a quantity that one more unit
\* would take beyond stockQty; else it raises the quantity of the product's
\* line by exactly 1 and leaves the other lines alone, or, the product not
\* being in the cart, appends a line of quantity 1 for it.
C21_AddItem ==
  /\ [](\A j \in 1..Len(cart) : \A k \in 1..Len(cart) : cart[j].id = cart[k].id => j = k)
  /\ [][\A id \in ProductIds :
          (cart' # cart /\ RegisterOpen /\ AddToCart(id)) =>
            LET stockQty == props.products[id].stockQty
                lines == {k \in 1..Len(cart) : cart[k].id = id} IN
            IF stockQty <= 0 THEN cart' = cart
            ELSE IF lines # {}
              THEN \A k \in lines :
                     IF cart[k].quantity + 1 > stockQty THEN cart' = cart
                     ELSE /\ Len(cart') = Len(cart)
                          /\ cart'[k].id = id
                          /\ cart'[k].quantity = cart[k].quantity + 1
                          /\ \A i \in 1..Len(cart) : i # k => cart'[i] = cart[i]
              ELSE /\ Len(cart') = Len(cart) + 1
                   /\ SubSeq(cart', 1, Len(cart)) = cart
                   /\ cart'[Len(cart')].id = id
                   /\ cart'[Len(cart')].quantity = 1]_vars

\* a line that holds all the stock of its product, beside a second line, while
\* another product is out of stock: adding any of the three fails or has failed
C21_Witness ==
  /\ Len(cart) = 2
  /\ \E k \in 1..Len(cart) :
       /\ cart[k].id \in DOMAIN props.products
       /\ cart[k].quantity = 2
       /\ cart[k].quantity = props.products[cart[k].id].stockQty
  /\ \E id \in DOMAIN props.products : props.products[id].stockQty <= 0

(* ---- C22 ---- *)

\* C22: no line of the cart ever has a quantity below 1, and every
\* updateQuantity(id, delta) leaves the lines of other products as they are
\* and, on the line of product id, leaves the line as it is when delta > 0
\* and max(1, quantity + delta) exceeds the product's last-known stock, else
\* sets its quantity to max(1, quantity + delta).
C22_ChangeQuantity ==
  /\ [](\A k \in 1..Len(cart) : cart[k].quantity >= 1)
  /\ [][\A id \in ProductIds : \A delta \in {0 - 1, 1} :
          (cart' # cart /\ RegisterOpen /\ UpdateQuantity(id, delta)) =>
            /\ Len(cart') = Len(cart)
            /\ \A k \in 1..Len(cart) :
                 LET raised == cart[k].quantity + delta
                     floored == IF raised >= 1 THEN raised ELSE 1
                     stock == IF id \in DOMAIN props.products
                                THEN props.products[id].stockQty ELSE cart[k].stockQty IN
                 IF cart[k].id # id THEN cart'[k] = cart[k]
                 ELSE IF delta > 0 /\ floored > stock THEN cart'[k] = cart[k]
                 ELSE /\ cart'[k].id = id
                      /\ cart'[k].quantity = floored]_vars

\* two lines: one of quantity 1 (the - button leaves it at 1), one that holds
\* all the stock of its product (the + button leaves it as it is)
C22_Witness ==
  /\ \E k \in 1..Len(cart) : cart[k].quantity = 1
  /\ \E k \in 1..Len(cart) :
       /\ cart[k].id \in DOMAIN props.products
       /\ cart[k].quantity = 2
       /\ cart[k].quantity >= props.products[cart[k].id].stockQty

(* ---- C23 ---- *)

\* the line after updateDiscount has clamped percent into [0, 100]: only its
\* discount and its lineTotal are new
Rediscounted(item, percent) ==
  LET clamped == IF percent < 0 THEN 0 ELSE IF percent > 100 THEN 100 ELSE percent IN
  [item EXCEPT !.appliedDiscountPercent = clamped,
               !.lineTotal = item.price * item.quantity * (100 - clamped)
                                                        * (100 + item.appliedTaxPercent)]

\* every updateDiscount(id, percent) stores the clamped percent on the line of
\* product id, recomputes its lineTotal, and changes nothing else
C23_SetLineDiscount ==
  [][\A id \in ProductIds : \A percent \in DiscountInputs :
       (cart' # cart /\ RegisterOpen /\ UpdateDiscount(id, percent)) =>
         /\ Len(cart') = Len(cart)
         /\ \A k \in 1..Len(cart) :
              cart'[k] = IF cart[k].id = id THEN Rediscounted(cart[k], percent) ELSE cart[k]]_vars

\* C23: updateDiscount stores min(100, max(0, percent)) on the addressed line
\* and recomputes its lineTotal, leaving its tax, quantity and price and all
\* other lines as they are; and so every line of the cart has a discount
\* percent within [0, 100] at all times.
C23_DiscountWithinRange ==
  /\ C23_SetLineDiscount
  /\ [](\A k \in 1..Len(cart) : cart[k].appliedDiscountPercent \in 0..100)

(* ---- the invoices as they are read back, under changes of the products ---- *)

\* (a mutant: the name and the price of a line are read from its product's row)
ReadInvoiceFromCatalog(id) ==
  LET invoice == CHOOSE row \in invoices : row.id = id
      rows == {row \in invoice_items : row.invoice_id = id}
      live(row) == row.product_id \in DOMAIN catalog.rows IN
  [id |-> invoice.id, invoiceNumber |-> invoice.invoice_number,
   storeId |-> invoice.store_id,
   items |-> [k \in 1..Cardinality(rows) |->
                LET row == CHOOSE row \in rows : row.line = k IN
                [id |-> row.product_id,
                 name |-> IF live(row) THEN catalog.rows[row.product_id].name
                          ELSE row.product_name,
                 quantity |-> row.quantity,
                 price |-> IF live(row) THEN catalog.rows[row.product_id].price
                           ELSE row.unit_price,
                 appliedTaxPercent |-> row.applied_tax_percent,
                 appliedDiscountPercent |-> row.applied_discount_percent,
                 lineTotal |-> row.line_total]],
   subtotal |-> invoice.subtotal, taxTotal |-> invoice.tax_total,
   discountTotal |-> invoice.discount_total, grandTotal |-> invoice.grand_total]

\* GET /api/invoices/:id for an invoice that exists (the items in the order
\* they were inserted; amounts in cents, as the DECIMAL columns hold them)
ReadInvoice(id) ==
  LET invoice == CHOOSE row \in invoices : row.id = id
      rows == {row \in invoice_items : row.invoice_id = id} IN
  [id |-> invoice.id, invoiceNumber |-> invoice.invoice_number,
   storeId |-> invoice.store_id,
   items |-> [k \in 1..Cardinality(rows) |->
                LET row == CHOOSE row \in rows : row.line = k IN
                [id |-> row.product_id, name |-> row.product_name,
                 quantity |-> row.quantity, price |-> row.unit_price,
                 appliedTaxPercent |-> row.applied_tax_percent,
                 appliedDiscountPercent |-> row.applied_discount_percent,
                 lineTotal |-> row.line_total]],
   subtotal |-> invoice.subtotal, taxTotal |-> invoice.tax_total,
   discountTotal |-> invoice.discount_total, grandTotal |-> invoice.grand_total]

\* the requests to /api/products made while invoices are issued: a PUT that
\* renames p1, reprices it and gives it a tax override, a DELETE of p1, a
\* DELETE of a product that has no row, a stock adjustment of p1
LedgerCalls ==
  {ProductCall("put", "p1", Undefined, Undefined, TRUE, <<"Renamed">>, <<10100>>, <<12>>),
   ProductCall("delete", "p1", Undefined, Undefined, TRUE, Undefined, Undefined, Undefined),
   ProductCall("delete", "p3", Undefined, Undefined, TRUE, Undefined, Undefined, Undefined),
   AdminCall("patch", "p1", <<1>>, Undefined, TRUE)}

LedgerNext ==
  \/ \E r \in Requests : ReceiveFrom(r, ContendingBodies) \/ Handler(r)
  \/ \E a \in Admins :
       \/ AdminReceiveFrom(a, LedgerCalls)
       \/ PatchSelect(a)
       \/ PatchUpdate(a)
       \/ PatchReselect(a)
       \/ PutUpdate(a)
       \/ DeleteProduct(a)
       \/ AdminLockWaitTimeout(a)

SpecLedger == Init /\ [][LedgerNext]_vars

(* ---- C24 ---- *)

\* request r was answered 201: its invoice is persisted
Issued(r) == req[r].pc = "done" /\ req[r].response.status = 201

\* C24: a PUT /api/products/:id changes no row of invoices and nothing of what
\* GET /api/invoices/:id returns for the invoices persisted before it; and at
\* all times the invoice of a request answered 201 reads back with the name,
\* unit price, tax percent, discount percent, quantity and lineTotal of each
\* line and the header totals that the request carried.
C24_SnapshotImmutability ==
  /\ [][(\E a \in Admins : PutUpdate(a)) =>
          /\ invoices' = invoices
          /\ \A row \in invoices : ReadInvoice(row.id)' = ReadInvoice(row.id)]_vars
  /\ [](\A r \in Requests :
          Issued(r) =>
            LET body == req[r].body
                read == ReadInvoice(req[r].response.invoiceId) IN
            /\ Len(read.items) = Len(body.items)
            /\ \A k \in 1..Len(body.items) :
                 /\ read.items[k].name = body.items[k].name
                 /\ read.items[k].price = body.items[k].price
                 /\ read.items[k].quantity = body.items[k].quantity
                 /\ read.items[k].appliedTaxPercent = OrZero(body.items[k].appliedTaxPercent)
                 /\ read.items[k].appliedDiscountPercent =
                      OrZero(body.items[k].appliedDiscountPercent)
                 /\ read.items[k].lineTotal = body.items[k].lineTotal
            /\ read.subtotal = OrZero(body.subtotal)
            /\ read.taxTotal = OrZero(body.taxTotal)
            /\ read.discountTotal = OrZero(body.discountTotal)
            /\ read.grandTotal = OrZero(body.grandTotal))

\* an invoice with a line of p1 is persisted, and a PUT has given p1 another
\* name, another price and another tax
C24_Witness ==
  /\ \E r \in Requests :
       /\ Issued(r)
       /\ \E k \in 1..Len(req[r].body.items) : req[r].body.items[k].productId = "p1"
  /\ \E a \in Admins : admin[a].kind = "put" /\ admin[a].status = 200
  /\ "p1" \in DOMAIN catalog.rows
  /\ catalog.rows["p1"].name = "Renamed"
  /\ \E row \in invoice_items : row.product_id = "p1" /\ row.product_name = "Soap"

(* ---- C25 ---- *)

\* C25: no step removes or changes a row of invoices or of invoice_items:
\* every row persisted before the step is there, the same, after it.
C25_InvoiceStoreAppendOnly ==
  [][/\ \A row \in invoices : row \in invoices'
     /\ \A row \in invoice_items : row \in invoice_items']_vars

(* ---- one checkout, from the register to the database ---- *)

\* a line of the payload as req.body.items carries it
SentItem(item) ==
  [productId |-> item.productId, quantity |-> item.quantity, name |-> item.name,
   price |-> item.price,
   appliedTaxPercent |-> <<item.appliedTaxPercent>>,
   appliedDiscountPercent |-> <<item.appliedDiscountPercent>>,
   lineTotal |-> item.lineTotal]

\* JSON.stringify(payload) as req.body
SentBody(payload) ==
  Body(payload.storeId, TRUE, [k \in 1..Len(payload.items) |-> SentItem(payload.items[k])],
       <<payload.subtotal>>, <<payload.taxTotal>>, <<payload.discountTotal>>,
       <<payload.grandTotal>>)

\* the request of the page and the request of App's handleSaveInvoice
PosRequest == 1
SaveRequest == 2

\* the cashier pays (one checkout is followed)
PosSubmits ==
  /\ req[PosRequest].pc = "idle"
  /\ FinalizePayment

\* fetch('/api/invoices', {method: 'POST', body}): the request reaches the server
PosRequestArrives ==
  /\ pos.payload # NoPayload
  /\ ReceiveFrom(PosRequest, {SentBody(pos.payload[1])})

\* response.ok: onSaveInvoice, the local stock, the cart (finalizePayment's
\* success path)
PosResponseOk ==
  /\ req[PosRequest].pc = "done"
  /\ req[PosRequest].response.status = 201
  /\ CheckoutSucceeds

\* !response.ok: the alert
PosResponseNotOk ==
  /\ req[PosRequest].pc = "done"
  /\ req[PosRequest].response.status # 201
  /\ CheckoutFails

\* the fetch rejects (the connection fails, before or after the request has
\* reached the server): the catch block's alert
PosNetworkError ==
  /\ req[PosRequest].pc # "done"
  /\ CheckoutFails

\* the page has handled the 201 of its request: the invoice is in the local list
PosCompleted ==
  /\ req[PosRequest].pc = "done"
  /\ req[PosRequest].response.status = 201
  /\ props.invoices # <<>>

\* handleSaveInvoice (called by onSaveInvoice): invoicesApi.create(invoice)
\* posts the invoice, with the storeId, items and totals of the payload, to
\* /api/invoices
SaveInvoiceArrives ==
  /\ PosCompleted
  /\ ReceiveFrom(SaveRequest, {req[PosRequest].body})

\* the steps of the handler of request r (the two requests follow each other:
\* no statement waits for a row lock)
Served(r) ==
  \/ GetConnection(r)
  \/ BeginTransaction(r)
  \/ InsertInvoice(r)
  \/ SelectForUpdate(r)
  \/ InsertItem(r)
  \/ UpdateStock(r)
  \/ Commit(r)
  \/ Rollback(r)
  \/ StatementFails(r)

CheckoutNext ==
  \/ \E id \in ProductIds :
       \/ RegisterOpen /\ AddToCart(id)
       \/ RegisterOpen /\ RemoveFromCart(id)
       \/ RegisterOpen /\ \E delta \in {0 - 1, 1} : UpdateQuantity(id, delta)
       \/ RegisterOpen /\ \E percent \in DiscountInputs : UpdateDiscount(id, percent)
  \/ PosSubmits
  \/ PosRequestArrives
  \/ PosResponseOk
  \/ PosResponseNotOk
  \/ PosNetworkError
  \/ Render
  \/ SaveInvoiceArrives
  \/ \E r \in Requests : Served(r)

\* the server holds the stock the page was loaded with
InitCheckout ==
  /\ products = [p \in StockedProducts |-> InitialProps.products[p].stockQty]
  /\ initialStock = products
  /\ invoices = {}
  /\ invoice_items = {}
  /\ tx = [c \in Connections |-> NoTx]
  /\ lockOwner = [p \in ProductIds |-> NoConnection]
  /\ pool = Connections
  /\ req = [r \in Requests |-> NewRequest]
  /\ admin = [a \in Admins |-> NewAdmin]
  /\ ClientInit

SpecCheckout == InitCheckout /\ [][CheckoutNext]_vars

(* ---- C26 ---- *)

\* C26: once the page's request has been answered 201, there is exactly one
\* invoice on the server, now and after the page's callbacks, and the
\* stock_qty of every product is its initial stock less the quantity sold by
\* the cart whenever no transaction is open.
C26_OneCheckoutOneIssuance ==
  (req[PosRequest].pc = "done" /\ req[PosRequest].response.status = 201) =>
    /\ Cardinality(invoices) = 1
    /\ (\A c \in Connections : ~tx[c].active) =>
         \A p \in DOMAIN products :
           products[p] = initialStock[p] - RowQty(invoice_items, p)
    /\ \A p \in DOMAIN products :
         RowQty(invoice_items, p) =
           SumSeq([k \in 1..Len(req[PosRequest].body.items) |->
                     IF req[PosRequest].body.items[k].productId = p
                       THEN req[PosRequest].body.items[k].quantity ELSE 0])

(* ---- C27 ---- *)

\* the quantity of product id in the lines of a cart
CartQty(lines, id) ==
  SumSeq([k \in 1..Len(lines) |-> IF lines[k].id = id THEN lines[k].quantity ELSE 0])

GuardNext ==
  \/ \E id \in ProductIds :
       \/ RegisterOpen /\ AddToCart(id)
       \/ RegisterOpen /\ RemoveFromCart(id)
       \/ RegisterOpen /\ \E delta \in {0 - 1, 1} : UpdateQuantity(id, delta)
  \/ FinalizePayment
  \/ ClickIgnored
  \/ CheckoutSucceeds
  \/ CheckoutFails
  \/ Render

SpecGuard == InitClient /\ [][GuardNext]_vars

\* C28: at most one issuance request of the page is in flight: while one is,
\* the handler of every click sees isSubmitting set, a click sends nothing and
\* leaves the payload in flight alone; the end of the submission, a success or
\* a failure, resets isSubmitting, and the next render enables the button
C28_DoubleSubmitGuard ==
  /\ [](/\ pos.inFlight \in {0, 1}
        /\ pos.isSubmitting <=> pos.inFlight = 1
        /\ pos.isSubmitting => pos.rendered)
  /\ [][/\ pos.inFlight = 1 =>
             /\ pos'.inFlight <= 1
             /\ pos'.payload \in {pos.payload, NoPayload}
        /\ ClickIgnored => pos'.inFlight = pos.inFlight /\ pos'.payload = pos.payload
        /\ (CheckoutSucceeds \/ CheckoutFails) => ~pos'.isSubmitting /\ pos'.inFlight = 0
        /\ Render => ~pos'.rendered /\ pos'.inFlight = 0]_vars

\* a click was ignored while a submission was in flight; the submission has
\* failed since, and the button is enabled again with the cart still to be paid
C28_Witness ==
  pos.ignored /\ ~pos.isSubmitting /\ ~pos.rendered /\ pos.inFlight = 0 /\ cart # <<>>

(* ---- the offline manager: the queues of localStorage and their sync ---- *)

\* const maxRetries = 5
MaxRetries == 5

QueueIds(queue) == {queue[k].tempId : k \in 1..Len(queue)}

\* existing.filter(inv => inv.tempId !== tempId)
Without(queue, tempId) == SelectSeq(queue, LAMBDA inv : inv.tempId # tempId)

\* removePendingInvoice, incrementRetryCount and moveToFailed, by the queues
\* they leave in localStorage
RemovePendingInvoice(o, tempId) == [o EXCEPT !.pending = Without(@, tempId)]

IncrementRetryCount(o, tempId) ==
  [o EXCEPT !.pending =
     [k \in 1..Len(@) |->
        IF @[k].tempId = tempId THEN [@[k] EXCEPT !.retryCount = @ + 1] ELSE @[k]]]

MoveToFailed(o, invoice) ==
  RemovePendingInvoice([o EXCEPT !.failed = Append(@, invoice)], invoice.tempId)

OfflineOnly == UNCHANGED <<cart, props, pos, catalog, server>>

\* addPendingInvoice: a sale made offline joins the pending queue
AddPendingInvoice(tempId) ==
  /\ tempId \notin QueueIds(offline.pending) \cup QueueIds(offline.failed)
                     \cup offline.accepted \cup offline.removed
  /\ offline' = [offline EXCEPT
                   !.pending = Append(@, [tempId |-> tempId, retryCount |-> 0])]
  /\ OfflineOnly

\* removeFailedInvoice
RemoveFailedInvoice(tempId) ==
  /\ tempId \in QueueIds(offline.failed)
  /\ offline' = [offline EXCEPT !.failed = Without(@, tempId),
                                !.removed = @ \cup {tempId}]
  /\ OfflineOnly

NotRunning(r) == offline.run[r].pc \in {"idle", "returned", "skipped", "threw"}

\* (a mutant: syncPendingInvoices without its lock)
SyncCallUnlocked(r) ==
  /\ NotRunning(r)
  /\ offline' = [offline EXCEPT
                   !.isSyncing = TRUE,
                   !.run[r] = [pc |-> "loop", pending |-> offline.pending, i |-> 1,
                               synced |-> 0, failed |-> 0, result |-> NoResult]]
  /\ OfflineOnly

\* syncPendingInvoices is called: with the lock taken it returns
\* {synced: 0, failed: 0} at once, else it takes the lock and reads the
\* pending queue
SyncCall(r) ==
  /\ NotRunning(r)
  /\ IF offline.isSyncing
       THEN offline' = [offline EXCEPT
                          !.run[r] = [IdleRun EXCEPT
                                        !.pc = "skipped",
                                        !.result = <<[synced |-> 0, failed |-> 0]>>]]
       ELSE offline' = [offline EXCEPT
                          !.isSyncing = TRUE,
                          !.run[r] = [pc |-> "loop", pending |-> offline.pending,
                                      i |-> 1, synced |-> 0, failed |-> 0,
                                      result |-> NoResult]]
  /\ OfflineOnly

\* the invoice the loop of run r is at
Current(r) == offline.run[r].pending[offline.run[r].i]

\* the loop has ended: return { synced, failed }; finally the lock is released
SyncReturns(r) ==
  /\ offline.run[r].pc = "loop"
  /\ offline.run[r].i > Len(offline.run[r].pending)
  /\ offline' = [offline EXCEPT
                   !.isSyncing = FALSE,
                   !.run[r] = [IdleRun EXCEPT
                                 !.pc = "returned",
                                 !.result = <<[synced |-> offline.run[r].synced,
                                               failed |-> offline.run[r].failed]>>]]
  /\ OfflineOnly

\* onProgress throws: the exception leaves the loop; finally the lock is released
ProgressThrows(r) ==
  /\ offline.run[r].pc = "loop"
  /\ offline.run[r].i <= Len(offline.run[r].pending)
  /\ offline' = [offline EXCEPT
                   !.isSyncing = FALSE,
                   !.run[r] = [IdleRun EXCEPT !.pc = "threw"]]
  /\ OfflineOnly

\* what one more submission of tempId leaves
Submitting(o, r, tempId) ==
  [o EXCEPT !.run[r].pc = "submitting", !.submitted[tempId] = @ + 1]

\* what the end of retryInvoice leaves in the loop's locals
Counted(o, r, success) ==
  [o EXCEPT !.run[r].pc = "loop", !.run[r].i = @ + 1,
            !.run[r].synced = IF success THEN @ + 1 ELSE @,
            !.run[r].failed = IF success THEN @ ELSE @ + 1]

\* retryInvoice, up to its first await: an invoice that has used its retries
\* is moved to the failed queue; one that has failed before waits; a new one is
\* handed to submitFn
RetryInvoice(r) ==
  /\ offline.run[r].pc = "loop"
  /\ offline.run[r].i <= Len(offline.run[r].pending)
  /\ offline' =
       IF Current(r).retryCount >= MaxRetries
         THEN Counted(MoveToFailed(offline, Current(r)), r, FALSE)
         ELSE IF Current(r).retryCount > 0
                THEN [offline EXCEPT !.run[r].pc = "delay"]
                ELSE Submitting(offline, r, Current(r).tempId)
  /\ OfflineOnly

\* the delay is over: submitFn(invoice)
DelayEnds(r) ==
  /\ offline.run[r].pc = "delay"
  /\ offline' = Submitting(offline, r, Current(r).tempId)
  /\ OfflineOnly

\* submitFn resolves: removePendingInvoice, { success: true }
SubmitResolves(r) ==
  /\ offline.run[r].pc = "submitting"
  /\ offline' = Counted([RemovePendingInvoice(offline, Current(r).tempId)
                           EXCEPT !.accepted = @ \cup {Current(r).tempId}],
                        r, TRUE)
  /\ OfflineOnly

\* (a mutant: a failed submission is not counted)
SubmitRejectsUncounted(r) ==
  /\ offline.run[r].pc = "submitting"
  /\ offline' = Counted(offline, r, FALSE)
  /\ OfflineOnly

\* submitFn rejects: incrementRetryCount, { success: false }
SubmitRejects(r) ==
  /\ offline.run[r].pc = "submitting"
  /\ offline' = Counted(IncrementRetryCount(offline, Current(r).tempId), r, FALSE)
  /\ OfflineOnly

OfflineNext ==
  \/ \E tempId \in TempIds :
       \/ AddPendingInvoice(tempId)
       \/ RemoveFailedInvoice(tempId)
  \/ \E r \in SyncCallers :
       \/ SyncCall(r)
       \/ SyncReturns(r)
       \/ ProgressThrows(r)
       \/ RetryInvoice(r)
       \/ DelayEnds(r)
       \/ SubmitResolves(r)
       \/ SubmitRejects(r)

SpecOffline == InitClient /\ [][OfflineNext]_vars

(* ---- C29: the sync lock ---- *)

Running == {r \in SyncCallers : ~NotRunning(r)}

\* C29: at most one call of syncPendingInvoices is inside its loop, and
\* isSyncing is set exactly while one is; a call made meanwhile returns
\* {synced: 0, failed: 0} and changes neither the queues nor what was
\* submitted; a run that returns or throws releases the lock, and a call made
\* with the lock free runs
C29_SyncLock ==
  /\ [](/\ Cardinality(Running) <= 1
        /\ offline.isSyncing <=> Running # {})
  /\ [][\A r \in SyncCallers :
          /\ (SyncCall(r) /\ offline.isSyncing) =>
               /\ offline'.run[r].pc = "skipped"
               /\ offline'.run[r].result = <<[synced |-> 0, failed |-> 0]>>
               /\ offline'.submitted = offline.submitted
               /\ offline'.pending = offline.pending
               /\ offline'.failed = offline.failed
               /\ offline'.isSyncing
          /\ (SyncReturns(r) \/ ProgressThrows(r)) => ~offline'.isSyncing
          /\ (SyncCall(r) /\ ~offline.isSyncing) =>
               /\ offline'.run[r].pc = "loop" /\ offline'.isSyncing]_vars

\* a call was skipped while the other caller's run was active; that run has
\* submitted an invoice and has ended by an exception, and the lock is free
C29_Witness ==
  /\ offline.run[2].pc = "skipped"
  /\ offline.run[1].pc = "threw"
  /\ offline.submitted["t1"] = 1
  /\ ~offline.isSyncing

(* ---- C30: the bounded offline retry ---- *)

RetryCountOf(queue, tempId) ==
  LET k == CHOOSE k \in 1..Len(queue) : queue[k].tempId = tempId IN queue[k].retryCount

Occurrences(queue, tempId) ==
  Cardinality({k \in 1..Len(queue) : queue[k].tempId = tempId})

\* C30: no invoice is handed to submitFn more than 5 times, and none after it
\* was accepted; a rejected submission raises the stored retryCount by one and
\* the invoice stays pending; an accepted one leaves the pending queue; an
\* invoice with retryCount 5 goes to the failed queue without a submission;
\* an invoice is never in both queues nor twice in one, and it leaves the
\* queues only when it is accepted or removed from the failed queue
C30_BoundedRetry ==
  /\ [](\A t \in TempIds :
          /\ offline.submitted[t] <= MaxRetries
          /\ Occurrences(offline.pending, t) + Occurrences(offline.failed, t) <= 1
          /\ t \in offline.accepted =>
               t \notin QueueIds(offline.pending) \cup QueueIds(offline.failed)
          /\ t \in QueueIds(offline.failed) =>
               RetryCountOf(offline.failed, t) = MaxRetries)
  /\ [][/\ \A t \in TempIds :
             /\ offline'.submitted[t] # offline.submitted[t] =>
                  /\ offline'.submitted[t] = offline.submitted[t] + 1
                  /\ t \in QueueIds(offline.pending) /\ t \notin offline.accepted
                  /\ RetryCountOf(offline.pending, t) < MaxRetries
             /\ (t \in QueueIds(offline.pending) \cup QueueIds(offline.failed)
                   /\ t \notin QueueIds(offline'.pending) \cup QueueIds(offline'.failed)) =>
                  t \in offline'.accepted \cup offline'.removed
        /\ \A r \in SyncCallers :
             /\ SubmitRejects(r) =>
                  /\ Current(r).tempId \in QueueIds(offline'.pending)
                  /\ RetryCountOf(offline'.pending, Current(r).tempId)
                       = RetryCountOf(offline.pending, Current(r).tempId) + 1
                  /\ offline'.failed = offline.failed
             /\ SubmitResolves(r) =>
                  /\ Current(r).tempId \notin QueueIds(offline'.pending)
                  /\ Current(r).tempId \in offline'.accepted
             /\ (RetryInvoice(r) /\ Current(r).retryCount >= MaxRetries) =>
                  /\ Current(r).tempId \in QueueIds(offline'.failed)
                  /\ Current(r).tempId \notin QueueIds(offline'.pending)
                  /\ offline'.submitted = offline.submitted]_vars

\* one invoice was submitted five times and is in the failed queue, the other
\* was accepted
C30_Witness ==
  /\ "t1" \in QueueIds(offline.failed)
  /\ offline.submitted["t1"] = MaxRetries
  /\ "t2" \in offline.accepted

====
